---- MODULE Spec2Model ----
(***************************************************************************)
(* A model of parts of diffy's Rust backend (src-tauri/src/git):           *)
(*   - parse_file_conflicts   (merge.rs): the conflict-marker scanner,     *)
(*   - build_commit_graph     (graph.rs): the commit-graph column layout,  *)
(*   - the merge/rebase operations of merge.rs, which drive the external   *)
(*     git tool and read the repository's state back from disk,            *)
(*   - the reading of the external tool's output by these operations,      *)
(*   - start_interactive_rebase: the rendering of the plan and the         *)
(*     temporary files handed to the tool,                                 *)
(*   - the diff requests of diff.rs and the patch they synthesize,         *)
(*   - get_interactive_rebase_state (merge.rs) over the rebase directory.  *)
(* Each part has its own specification (SpecParse, SpecGraph, SpecOps,     *)
(* SpecOutput, SpecRender, SpecStart, SpecDiff, SpecState, SpecPlace and   *)
(* SpecIter for one commit of build_commit_graph, SpecWatch for the file   *)
(* watcher of watcher.rs, SpecSquash for squash_commits of repository.rs); *)
(* the variables of the other parts stay at their idle values.             *)
(***************************************************************************)
EXTENDS Integers, Sequences, FiniteSets, TLC

VARIABLES
    \* ---- parse_file_conflicts (merge.rs:788-858)
    lines,            \* content.lines() of the file being parsed
    scan_i,           \* the loop index i (0-based, as in the source)
    in_conflict,
    in_ours,
    conflict_start,
    current_ours,
    current_theirs,
    conflicts,        \* Vec<ConflictRegion>
    ours_lines,
    theirs_lines,
    parse_result,     \* the returned FileConflictInfo, or NoResult
    \* ---- build_commit_graph (graph.rs:33-121)
    parent_ids_of,    \* the repository: commit id -> its parent ids, in order
    commit_ids,       \* the input list
    row,              \* the loop index (0-based, as in the source)
    active_columns,   \* Vec<Option<String>>: None, or the commit a column waits for
    commit_to_row,    \* HashMap<String, usize>
    nodes,            \* Vec<GraphNode>
    graph_result,     \* the returned CommitGraph, or NoResult
    \* ---- the merge/rebase operations (merge.rs:95-288, 444-658, 726-948)
    repo,             \* the repository on disk: state, index conflicts, files
    last_call,        \* the latest call made through this system
    \* ---- the tool's output as the operations read it (merge.rs:195-209, ...)
    output,           \* std::process::Output of one run of the tool
    classified,       \* the operation that ran the tool and what it returned
    \* ---- the todo rendering of start_interactive_rebase (merge.rs:365-378)
    plan,             \* Vec<InteractiveRebasePlanEntry>
    todo_content,     \* the rendered String, or NoResult
    \* ---- concurrent invocations that hand temporary files to the tool
    \*      (merge.rs:380-440, 593-631)
    inv,              \* invocation -> its request, position and result
    files,            \* the temporary directory: path -> file
    \* ---- the diff requests (diff.rs:70-145, 148-401)
    diff,             \* git2::Diff: the deltas, each with what the library and
                      \* the working directory hold for it
    diff_call,        \* the request made and what it returned, or NoResult
    \* ---- get_interactive_rebase_state (merge.rs:444-572)
    disk,             \* the repository on disk, with its rebase directory
    state_read,       \* the returned InteractiveRebaseState, or NoResult
    \* ---- the placement of one commit (graph.rs:59-66, 123-141)
    placing,          \* active_columns and the commit_id to be placed
    placed,           \* the column chosen and active_columns afterwards
    \* ---- one iteration of the loop over the commits (graph.rs:56-114)
    iteration,        \* the commit, its parents, and the columns step by step
    \* ---- the file watcher (watcher.rs:97-160)
    watcher,          \* WatcherState.watcher: None, or the RepoWatcher stored
    setup_threads,    \* the threads spawned by watch: path and position
    watching,         \* the RepoWatchers whose path is being watched
    watch_calls,      \* the start_watching / stop_watching calls made, in order
    \* ---- squash_commits (repository.rs:654-738)
    squash_call       \* the call: its input, the repository, position, result

parseVars == <<lines, scan_i, in_conflict, in_ours, conflict_start, current_ours,
               current_theirs, conflicts, ours_lines, theirs_lines, parse_result>>

graphVars == <<parent_ids_of, commit_ids, row, active_columns, commit_to_row, nodes,
               graph_result>>

opsVars == <<repo, last_call>>

outputVars == <<output, classified>>

renderVars == <<plan, todo_content>>

startVars == <<inv, files>>

diffVars == <<diff, diff_call>>

stateVars == <<disk, state_read>>

placeVars == <<placing, placed>>

iterVars == <<iteration>>

watchVars == <<watcher, setup_threads, watching, watch_calls>>

squashVars == <<squash_call>>

lateVars == <<iterVars, watchVars, squashVars>>

notLateVars == <<parseVars, graphVars, opsVars, outputVars, renderVars, startVars,
                 diffVars, stateVars, placeVars>>

readVars == <<diffVars, stateVars, placeVars, lateVars>>

toolVars == <<outputVars, renderVars, startVars, readVars>>

notStartVars == <<parseVars, graphVars, opsVars, outputVars, renderVars, readVars>>

notReadVars == <<parseVars, graphVars, opsVars, outputVars, renderVars, startVars>>

vars == <<parseVars, graphVars, opsVars, toolVars>>

NoResult == [none |-> TRUE]

\* The elements of a finite set of integers, in increasing order.
RECURSIVE SortedSeq(_)
SortedSeq(S) ==
    IF S = {} THEN <<>>
    ELSE LET m == CHOOSE x \in S : \A y \in S : x <= y
         IN <<m>> \o SortedSeq(S \ {m})

\* The idle values of each part's variables, held while another part runs.
ParseIdle ==
    /\ lines = <<>>
    /\ scan_i = 0
    /\ in_conflict = FALSE
    /\ in_ours = FALSE
    /\ conflict_start = 0
    /\ current_ours = <<>>
    /\ current_theirs = <<>>
    /\ conflicts = <<>>
    /\ ours_lines = <<>>
    /\ theirs_lines = <<>>
    /\ parse_result = NoResult

GraphIdle ==
    /\ parent_ids_of = <<>>
    /\ commit_ids = <<>>
    /\ row = 0
    /\ active_columns = <<>>
    /\ commit_to_row = <<>>
    /\ nodes = <<>>
    /\ graph_result = NoResult

OpsIdle ==
    /\ repo = NoResult
    /\ last_call = NoResult

OutputIdle ==
    /\ output = NoResult
    /\ classified = NoResult

RenderIdle ==
    /\ plan = <<>>
    /\ todo_content = NoResult

StartIdle ==
    /\ inv = <<>>
    /\ files = <<>>

DiffIdle ==
    /\ diff = <<>>
    /\ diff_call = NoResult

StateIdle ==
    /\ disk = NoResult
    /\ state_read = NoResult

PlaceIdle ==
    /\ placing = NoResult
    /\ placed = NoResult

IterIdle ==
    /\ iteration = NoResult

WatchIdle ==
    /\ watcher = 0
    /\ setup_threads = <<>>
    /\ watching = {}
    /\ watch_calls = <<>>

SquashIdle ==
    /\ squash_call = NoResult

LateIdle ==
    /\ IterIdle
    /\ WatchIdle
    /\ SquashIdle

NotLateIdle ==
    /\ DiffIdle
    /\ StateIdle
    /\ PlaceIdle
    /\ OutputIdle
    /\ RenderIdle
    /\ StartIdle
    /\ ParseIdle
    /\ GraphIdle
    /\ OpsIdle

ReadIdle ==
    /\ DiffIdle
    /\ StateIdle
    /\ PlaceIdle
    /\ LateIdle

ToolIdle ==
    /\ OutputIdle
    /\ RenderIdle
    /\ StartIdle
    /\ ReadIdle

\* ------------------------------------------------------------------------
\* Bounds of the model
\* ------------------------------------------------------------------------
MaxLines == 6
MaxCommits == 3
MaxPaths == 2
MaxPlan == 2
MaxBytes == 3
MaxDeltas == 2
MaxColumnCount == 3
MaxCalls == 3

\* ========================================================================
\* parse_file_conflicts
\* ========================================================================

\* The three literal markers the scanner tests with starts_with.
OursMarker == "<<<<<<<"
SeparatorMarker == "======="
TheirsMarker == ">>>>>>>"

\* The lines a modelled file is made of: one line per marker kind (a marker
\* followed by a label, as git writes it) and two distinct content lines.
LineSet == {"<<<<<<< HEAD", "=======", ">>>>>>> feature", "a", "b"}

\* str::starts_with over LineSet.
StartsWith(line, prefix) ==
    CASE prefix = OursMarker -> line = "<<<<<<< HEAD"
      [] prefix = SeparatorMarker -> line = "======="
      [] prefix = TheirsMarker -> line = ">>>>>>> feature"
      [] OTHER -> FALSE

\* <[String]>::join("\n"): the lines with a "\n" between neighbours, as one
\* sequence of pieces (no line of LineSet is empty or holds a newline).
RECURSIVE Join(_)
Join(ls) ==
    IF Len(ls) = 0 THEN <<>>
    ELSE IF Len(ls) = 1 THEN <<ls[1]>>
    ELSE <<ls[1], "\n">> \o Join(Tail(ls))

ConflictRegion(start, end, ours, theirs) ==
    [start_line |-> start, end_line |-> end,
     ours_content |-> Join(ours), theirs_content |-> Join(theirs)]

\* The state at merge.rs:793-803, for any file of at most MaxLines lines.
ParseInit ==
    /\ lines \in UNION {[1..n -> LineSet] : n \in 0..MaxLines}
    /\ scan_i = 0
    /\ in_conflict = FALSE
    /\ in_ours = FALSE
    /\ conflict_start = 0
    /\ current_ours = <<>>
    /\ current_theirs = <<>>
    /\ conflicts = <<>>
    /\ ours_lines = <<>>
    /\ theirs_lines = <<>>
    /\ parse_result = NoResult
    /\ GraphIdle
    /\ OpsIdle
    /\ ToolIdle

ClosedRegion_ZeroBasedEnd == ConflictRegion(conflict_start, scan_i, current_ours, current_theirs)

\* The region pushed when a closing marker is met (merge.rs:818-823).
ClosedRegion == ConflictRegion(conflict_start, scan_i + 1, current_ours, current_theirs)

InOursAfterSeparator_Stuck == in_ours

\* in_ours once a separator has been met inside a block (merge.rs:815).
InOursAfterSeparator == FALSE

OursLinesAfterClose_Theirs == ours_lines \o current_theirs

\* ours_lines once a block has been closed (merge.rs:826-828).
OursLinesAfterClose == ours_lines \o current_ours

\* theirs_lines once a block has been closed (merge.rs:830-832).
TheirsLinesAfterClose == theirs_lines \o current_theirs

\* One iteration of the while loop (merge.rs:805-849).
ParseStep ==
    /\ parse_result = NoResult
    /\ scan_i < Len(lines)
    /\ LET line == lines[scan_i + 1] IN
        \/ /\ StartsWith(line, OursMarker)
           /\ in_conflict' = TRUE
           /\ in_ours' = TRUE
           /\ conflict_start' = scan_i + 1
           /\ current_ours' = <<>>
           /\ current_theirs' = <<>>
           /\ UNCHANGED <<conflicts, ours_lines, theirs_lines>>
        \/ /\ ~StartsWith(line, OursMarker)
           /\ StartsWith(line, SeparatorMarker) /\ in_conflict
           /\ in_ours' = InOursAfterSeparator
           /\ UNCHANGED <<in_conflict, conflict_start, current_ours, current_theirs,
                          conflicts, ours_lines, theirs_lines>>
        \/ /\ ~StartsWith(line, OursMarker)
           /\ ~(StartsWith(line, SeparatorMarker) /\ in_conflict)
           /\ StartsWith(line, TheirsMarker) /\ in_conflict
           /\ conflicts' = Append(conflicts, ClosedRegion)
           /\ ours_lines' = OursLinesAfterClose
           /\ theirs_lines' = TheirsLinesAfterClose
           /\ in_conflict' = FALSE
           /\ in_ours' = FALSE
           /\ UNCHANGED <<conflict_start, current_ours, current_theirs>>
        \/ /\ ~StartsWith(line, OursMarker)
           /\ ~(StartsWith(line, SeparatorMarker) /\ in_conflict)
           /\ ~(StartsWith(line, TheirsMarker) /\ in_conflict)
           /\ in_conflict
           /\ IF in_ours
                THEN /\ current_ours' = Append(current_ours, line)
                     /\ UNCHANGED current_theirs
                ELSE /\ current_theirs' = Append(current_theirs, line)
                     /\ UNCHANGED current_ours
           /\ UNCHANGED <<in_conflict, in_ours, conflict_start, conflicts,
                          ours_lines, theirs_lines>>
        \/ /\ ~StartsWith(line, OursMarker)
           /\ ~in_conflict
           /\ ours_lines' = Append(ours_lines, line)
           /\ theirs_lines' = Append(theirs_lines, line)
           /\ UNCHANGED <<in_conflict, in_ours, conflict_start, current_ours,
                          current_theirs, conflicts>>
    /\ scan_i' = scan_i + 1
    /\ UNCHANGED <<lines, parse_result>>
    /\ UNCHANGED <<graphVars, opsVars, toolVars>>

\* The return value once the loop has ended (merge.rs:851-857).
ParseReturn ==
    /\ parse_result = NoResult
    /\ scan_i >= Len(lines)
    /\ parse_result' = [conflicts |-> conflicts,
                        ours_full |-> Join(ours_lines),
                        theirs_full |-> Join(theirs_lines)]
    /\ UNCHANGED <<lines, scan_i, in_conflict, in_ours, conflict_start, current_ours,
                   current_theirs, conflicts, ours_lines, theirs_lines>>
    /\ UNCHANGED <<graphVars, opsVars, toolVars>>

ParseNext == ParseStep \/ ParseReturn

SpecParse == ParseInit /\ [][ParseNext]_vars

\* ========================================================================
\* build_commit_graph
\* ========================================================================

\* Commit ids are 1..MaxCommits; Option::None is 0.
None == 0
CommitIds == 1..MaxCommits

\* Sequences without repetition over S, of length at most n.
DistinctSeqs(S, n) ==
    { s \in UNION {[1..k -> S] : k \in 0..n} :
        \A a, b \in 1..Len(s) : a # b => s[a] # s[b] }

\* The parent lists a commit can have: a commit's parents are older commits,
\* numbered here after it, so that every repository is acyclic.
ParentLists(c) == DistinctSeqs({ p \in CommitIds : p > c }, MaxCommits)

\* The repositories as far as build_commit_graph reads them: a parent list
\* for every commit of the input list (find_commit at graph.rs:57-58 is
\* called for no other commit), as a sequence indexed by commit id from c on.
RECURSIVE Repositories(_, _)
Repositories(c, listed) ==
    IF c > MaxCommits THEN {<<>>}
    ELSE { <<ps>> \o rest :
             ps \in (IF c \in listed THEN ParentLists(c) ELSE {<<>>}),
             rest \in Repositories(c + 1, listed) }

\* Vec::iter().position(|c| c == Some(id)): the first 0-based index holding
\* v, or -1 when there is none.
Position(cols, v) ==
    IF \E k \in 1..Len(cols) : cols[k] = v
    THEN (CHOOSE k \in 1..Len(cols) : cols[k] = v /\ \A j \in 1..(k - 1) : cols[j] # v) - 1
    ELSE -1

\* cols with the 0-based index col set to v.
SetColumn(cols, col, v) == [cols EXCEPT ![col + 1] = v]

FindColumnForCommit_IgnoreReserved(cols, commit_id) ==
    IF Position(cols, None) >= 0
    THEN [column |-> Position(cols, None), columns |-> cols]
    ELSE [column |-> Len(cols), columns |-> Append(cols, None)]

\* A choice that takes the free column of highest index.
FindColumnForCommit_LastFree(cols, commit_id) ==
    IF Position(cols, commit_id) >= 0
    THEN [column |-> Position(cols, commit_id), columns |-> cols]
    ELSE IF Position(cols, None) >= 0
    THEN [column |-> (CHOOSE k \in 1..Len(cols) :
                        cols[k] = None /\ \A j \in (k + 1)..Len(cols) : cols[j] # None) - 1,
          columns |-> cols]
    ELSE [column |-> Len(cols), columns |-> Append(cols, None)]

\* find_column_for_commit (graph.rs:123-141): the column, and the columns
\* after the call (a new free column may have been pushed).
FindColumnForCommit(cols, commit_id) ==
    IF Position(cols, commit_id) >= 0
    THEN [column |-> Position(cols, commit_id), columns |-> cols]
    ELSE IF Position(cols, None) >= 0
    THEN [column |-> Position(cols, None), columns |-> cols]
    ELSE [column |-> Len(cols), columns |-> Append(cols, None)]

\* The placement of a commit (graph.rs:59-66): the column found for it, and
\* the columns with that column cleared.
PlaceCommit(cols, commit_id) ==
    LET found == FindColumnForCommit(cols, commit_id)
    IN [column |-> found.column,
        columns |-> IF found.column < Len(found.columns)
                    THEN SetColumn(found.columns, found.column, None)
                    ELSE found.columns]

\* A variant that opens a new column for every commit not yet assigned.
FindOrCreateColumn_AlwaysAppend(cols, commit_id) ==
    IF Position(cols, commit_id) >= 0
    THEN [column |-> Position(cols, commit_id), columns |-> cols]
    ELSE [column |-> Len(cols), columns |-> Append(cols, commit_id)]

\* A variant that returns a column without writing the reservation.
FindOrCreateColumn_NoReservation(cols, commit_id) ==
    IF Position(cols, commit_id) >= 0
    THEN [column |-> Position(cols, commit_id), columns |-> cols]
    ELSE IF Position(cols, None) >= 0
    THEN [column |-> Position(cols, None), columns |-> cols]
    ELSE [column |-> Len(cols), columns |-> Append(cols, None)]

\* find_or_create_column (graph.rs:143-162).
FindOrCreateColumn(cols, commit_id) ==
    IF Position(cols, commit_id) >= 0
    THEN [column |-> Position(cols, commit_id), columns |-> cols]
    ELSE IF Position(cols, None) >= 0
    THEN [column |-> Position(cols, None),
          columns |-> SetColumn(cols, Position(cols, None), commit_id)]
    ELSE [column |-> Len(cols), columns |-> Append(cols, commit_id)]

\* A routing that gives a merge parent no column of its own.
ParentColumn_NoOwnColumn(cols, column, i, parent_id) ==
    IF Position(cols, parent_id) >= 0
    THEN [column |-> Position(cols, parent_id), columns |-> cols]
    ELSE [column |-> column, columns |-> SetColumn(cols, column, parent_id)]

\* A routing that continues the commit's own column into its first parent
\* whether or not another column waits for that parent.
ParentColumn_OwnColumnFirst(cols, column, i, parent_id) ==
    IF i = 0
    THEN [column |-> column, columns |-> SetColumn(cols, column, parent_id)]
    ELSE FindOrCreateColumn(cols, parent_id)

\* A routing that never looks for a column already waiting for the parent.
ParentColumn_NoConvergence(cols, column, i, parent_id) ==
    IF i = 0
    THEN [column |-> column, columns |-> SetColumn(cols, column, parent_id)]
    ELSE IF Position(cols, None) >= 0
    THEN [column |-> Position(cols, None),
          columns |-> SetColumn(cols, Position(cols, None), parent_id)]
    ELSE [column |-> Len(cols), columns |-> Append(cols, parent_id)]

\* The column a parent is routed to (graph.rs:75-89): the column, and the
\* columns after the reservation.
ParentColumn(cols, column, i, parent_id) ==
    IF Position(cols, parent_id) >= 0
    THEN [column |-> Position(cols, parent_id), columns |-> cols]
    ELSE IF i = 0
    THEN [column |-> column, columns |-> SetColumn(cols, column, parent_id)]
    ELSE FindOrCreateColumn(cols, parent_id)

ParentConnection_NoWindowCheck(to_row, column, parent_column, i, parent_id) ==
    <<[from_column |-> column, to_column |-> parent_column,
       to_row |-> IF parent_id \in DOMAIN to_row THEN to_row[parent_id] ELSE 0,
       is_merge |-> i > 0]>>

\* The connections one parent adds (graph.rs:92-99): one when the parent is
\* in the input list, none otherwise.
ParentConnection(to_row, column, parent_column, i, parent_id) ==
    IF parent_id \in DOMAIN to_row
    THEN <<[from_column |-> column, to_column |-> parent_column,
            to_row |-> to_row[parent_id], is_merge |-> i > 0]>>
    ELSE <<>>

\* The loop over the parents (graph.rs:71-100), from the 0-based parent
\* index i on: the columns and the connections at its end.
RECURSIVE ConnectParents(_, _, _, _, _, _)
ConnectParents(cols, conns, to_row, column, parents, i) ==
    IF i >= Len(parents) THEN [columns |-> cols, connections |-> conns]
    ELSE LET parent_id == parents[i + 1]
             pc == ParentColumn(cols, column, i, parent_id)
         IN ConnectParents(pc.columns,
                           conns \o ParentConnection(to_row, column, pc.column, i, parent_id),
                           to_row, column, parents, i + 1)

\* A compaction that closes every free column, shifting the columns to
\* its right.
Compact_RemoveAllFree(cols) == SelectSeq(cols, LAMBDA c : c # None)

\* Compaction (graph.rs:111-113): pop the free columns at the right end.
RECURSIVE Compact(_)
Compact(cols) ==
    IF Len(cols) > 0 /\ cols[Len(cols)] = None
    THEN Compact(SubSeq(cols, 1, Len(cols) - 1))
    ELSE cols

\* The first pass (graph.rs:52-54): a later row overwrites an earlier one.
CommitToRow(ids) ==
    [c \in { ids[k] : k \in 1..Len(ids) } |->
        (CHOOSE k \in 1..Len(ids) : ids[k] = c /\ \A j \in (k + 1)..Len(ids) : ids[j] # c) - 1]

MaxOf(S) == CHOOSE x \in S : \A y \in S : y <= x

\* The number of columns still reserved at the end, not the widest row.
MaxColumns_OpenColumns(ns) == Len(active_columns)

\* The largest node column itself.
MaxColumns_LargestColumn(ns) ==
    IF Len(ns) = 0 THEN 0 ELSE MaxOf({ ns[k].column : k \in 1..Len(ns) })

\* graph.rs:116: the largest node column plus one (unwrap_or(0) for no node).
MaxColumns(ns) ==
    (IF Len(ns) = 0 THEN 0 ELSE MaxOf({ ns[k].column : k \in 1..Len(ns) })) + 1

\* The state at graph.rs:47-54, for any repository of MaxCommits commits and
\* any input list of distinct commits of it.
GraphInit ==
    /\ commit_ids \in DistinctSeqs(CommitIds, MaxCommits)
    /\ parent_ids_of \in Repositories(1, { commit_ids[k] : k \in 1..Len(commit_ids) })
    /\ row = 0
    /\ active_columns = <<>>
    /\ commit_to_row = CommitToRow(commit_ids)
    /\ nodes = <<>>
    /\ graph_result = NoResult
    /\ ParseIdle
    /\ OpsIdle
    /\ ToolIdle

\* The early return for an empty input (graph.rs:40-45).
GraphReturnEmpty ==
    /\ graph_result = NoResult
    /\ Len(commit_ids) = 0
    /\ graph_result' = [nodes |-> <<>>, max_columns |-> 0]
    /\ UNCHANGED <<parent_ids_of, commit_ids, row, active_columns, commit_to_row, nodes>>
    /\ UNCHANGED <<parseVars, opsVars, toolVars>>

\* One iteration of the loop over the commits (graph.rs:56-114).
GraphStep ==
    /\ graph_result = NoResult
    /\ row < Len(commit_ids)
    /\ LET commit_id == commit_ids[row + 1]
           column == PlaceCommit(active_columns, commit_id).column
           cleared == PlaceCommit(active_columns, commit_id).columns
           done == ConnectParents(cleared, <<>>, commit_to_row, column,
                                  parent_ids_of[commit_id], 0)
       IN /\ nodes' = Append(nodes, [commit_id |-> commit_id, column |-> column,
                                     connections |-> done.connections])
          /\ active_columns' = Compact(done.columns)
    /\ row' = row + 1
    /\ UNCHANGED <<parent_ids_of, commit_ids, commit_to_row, graph_result>>
    /\ UNCHANGED <<parseVars, opsVars, toolVars>>

\* The return after the loop (graph.rs:116-120).
GraphReturn ==
    /\ graph_result = NoResult
    /\ Len(commit_ids) > 0
    /\ row >= Len(commit_ids)
    /\ graph_result' = [nodes |-> nodes, max_columns |-> MaxColumns(nodes)]
    /\ UNCHANGED <<parent_ids_of, commit_ids, row, active_columns, commit_to_row, nodes>>
    /\ UNCHANGED <<parseVars, opsVars, toolVars>>

GraphNext == GraphReturnEmpty \/ GraphStep \/ GraphReturn

SpecGraph == GraphInit /\ [][GraphNext]_vars

\* ---- the placement of one commit, from any columns ---------------------

\* active_columns as an iteration of the loop finds it (graph.rs:56): up to
\* n columns, each free or reserved for a commit, no commit reserved twice
\* (graph.rs:75-89 reserve a parent only when no column holds it), and the
\* last column reserved (graph.rs:111-113).
ActiveColumns(n) ==
    { cols \in UNION { [1..k -> {None} \cup CommitIds] : k \in 0..n } :
        /\ \A a, b \in DOMAIN cols : (a # b /\ cols[a] # None) => cols[a] # cols[b]
        /\ cols # <<>> => cols[Len(cols)] # None }

PlaceInit ==
    /\ placing \in [active_columns : ActiveColumns(MaxColumnCount), commit_id : CommitIds]
    /\ placed = NoResult
    /\ DiffIdle
    /\ StateIdle
    /\ LateIdle
    /\ OutputIdle
    /\ RenderIdle
    /\ StartIdle
    /\ ParseIdle
    /\ GraphIdle
    /\ OpsIdle

\* graph.rs:59-66: the column of the commit is found and cleared.
Place ==
    /\ placed = NoResult
    /\ placed' = PlaceCommit(placing.active_columns, placing.commit_id)
    /\ UNCHANGED <<placing, diffVars, stateVars, lateVars>>
    /\ UNCHANGED notReadVars

PlaceNext == Place

SpecPlace == PlaceInit /\ [][PlaceNext]_vars

\* ---- one iteration of the loop over the commits, step by step ----------

\* The iterations of graph.rs:56-114 on commit c: active_columns as the
\* iteration finds it, the parents of c (numbered after it, as in the
\* repositories above), and commit_to_row for an input list that holds c
\* and any of the commits after it (no commit but a parent is looked up at
\* graph.rs:92).  history is active_columns after each step taken so far.
Iterations(c) ==
    { [commit_id |-> c, parent_ids |-> ps, commit_to_row |-> [k \in l |-> k - 1],
       pc |-> "place", column |-> 0, i |-> 0, connections |-> <<>>,
       history |-> <<cols>>] :
        ps \in ParentLists(c),
        l \in { {c} \cup later : later \in SUBSET { p \in CommitIds : p > c } },
        cols \in ActiveColumns(MaxColumnCount) }

Current(it) == it.history[Len(it.history)]

IterInit ==
    /\ \E c \in CommitIds : iteration \in Iterations(c)
    /\ WatchIdle
    /\ SquashIdle
    /\ NotLateIdle

\* graph.rs:59-66: the column of the commit is found and cleared.
IterPlace ==
    /\ iteration # NoResult
    /\ iteration.pc = "place"
    /\ LET at == PlaceCommit(Current(iteration), iteration.commit_id)
       IN iteration' = [iteration EXCEPT !.pc = "parents",
                                         !.column = at.column,
                                         !.history = Append(@, at.columns)]
    /\ UNCHANGED <<watchVars, squashVars>>
    /\ UNCHANGED notLateVars

\* graph.rs:71-100: one turn of the loop over the parents.
IterParent ==
    /\ iteration # NoResult
    /\ iteration.pc = "parents"
    /\ iteration.i < Len(iteration.parent_ids)
    /\ LET parent_id == iteration.parent_ids[iteration.i + 1]
           pc == ParentColumn(Current(iteration), iteration.column, iteration.i, parent_id)
       IN iteration' = [iteration EXCEPT
              !.i = @ + 1,
              !.connections = @ \o ParentConnection(iteration.commit_to_row,
                                                    iteration.column, pc.column,
                                                    iteration.i, parent_id),
              !.history = Append(@, pc.columns)]
    /\ UNCHANGED <<watchVars, squashVars>>
    /\ UNCHANGED notLateVars

\* graph.rs:104-113: the node is pushed and the columns are compacted.
IterCompact ==
    /\ iteration # NoResult
    /\ iteration.pc = "parents"
    /\ iteration.i >= Len(iteration.parent_ids)
    /\ iteration' = [iteration EXCEPT !.pc = "done",
                                      !.history = Append(@, Compact(Current(iteration)))]
    /\ UNCHANGED <<watchVars, squashVars>>
    /\ UNCHANGED notLateVars

IterNext == IterPlace \/ IterParent \/ IterCompact

SpecIter == IterInit /\ [][IterNext]_vars

\* ========================================================================
\* The merge and rebase operations
\* ========================================================================

\* The tracked paths of the repository.
Paths == 1..MaxPaths

\* git2::RepositoryState, as far as merge.rs tells its values apart.
RepositoryStates == {"Clean", "Merge", "RevertSequence", "CherryPickSequence",
                     "CherryPick", "Rebase", "RebaseInteractive", "RebaseMerge"}

\* The states matched as in_rebase (merge.rs:97-102, 446-451).
RebaseStates == {"Rebase", "RebaseInteractive", "RebaseMerge"}

\* The states matched as in_merge (merge.rs:728-731).
MergeStates == {"Merge", "RevertSequence", "CherryPickSequence"}

\* A working-tree file either still holds conflict markers or does not.
Contents == {"markers", "resolved"}

\* The first word of the last line of the rebase directory's done file
\* (merge.rs:524-533); "" when the file is missing or empty.
DoneActions == {"", "pick", "edit", "reword", "squash", "fixup"}

\* The same with the one-letter commands the todo list allows and a
\* command that is none of these.
DoneWords == DoneActions \cup {"e", "r", "s", "f", "exec"}

\* The msgnum and end files of the rebase directory (merge.rs:479-484):
\* missing, holding a number, or holding something else.
CounterFiles == {"missing", "1", "2", "junk"}

\* The control files get_interactive_rebase_state reads in the rebase
\* directory: done, amend, message, message-squash, message-fixup, msgnum
\* and end.
Controls == [done_last : DoneWords, amend : BOOLEAN, message : BOOLEAN,
             message_squash : BOOLEAN, message_fixup : BOOLEAN,
             msgnum : CounterFiles, end : CounterFiles]

NoControl == [done_last |-> "", amend |-> FALSE, message |-> FALSE,
              message_squash |-> FALSE, message_fixup |-> FALSE,
              msgnum |-> "missing", end |-> "missing"]

\* The control files as the operations meet them: the operations read no
\* step counter, and the tool writes its commands in full.
OpsControls ==
    { c \in Controls : c.done_last \in DoneActions /\ c.msgnum = "missing" /\ c.end = "missing" }

\* The repositories the application can find on disk: any operation state,
\* any set of conflicted index entries, any file contents; the rebase
\* directory exists only during a rebase, and only .git/rebase-merge holds
\* the done, amend, message, message-squash and message-fixup files.
RepoSnapshots ==
    { r \in [state : RepositoryStates, conflicted : SUBSET Paths,
             worktree : [Paths -> Contents], control : OpsControls] :
        r.state \notin {"RebaseInteractive", "RebaseMerge"} => r.control = NoControl }

\* rebase_merge_dir.exists() (merge.rs:471): libgit2 reports RebaseInteractive
\* and RebaseMerge exactly when .git/rebase-merge exists.
RebaseMergeDirExists(r) == r.state \in {"RebaseInteractive", "RebaseMerge"}

\* The status scan (merge.rs:107-119, 505-517, 736-748): the paths whose
\* status is conflicted, in the path order of the status list.
ConflictingFiles(r) == SortedSeq(r.conflicted)

\* get_rebase_onto_ref (merge.rs:133-166): the onto file of the rebase
\* directory, when there is one.
GetRebaseOntoRef(r) == IF r.state \in RebaseStates THEN "onto" ELSE "None"

\* get_their_branch (merge.rs:762-785): MERGE_MSG names a branch during a
\* merge.
GetTheirBranch(r) == IF r.state = "Merge" THEN "branch" ELSE "None"

\* get_rebase_status (merge.rs:95-130).
GetRebaseStatus(r) ==
    LET in_rebase == r.state \in RebaseStates IN
    [in_rebase |-> in_rebase,
     conflicting_files |-> IF in_rebase THEN ConflictingFiles(r) ELSE <<>>,
     onto_ref |-> GetRebaseOntoRef(r)]

\* get_merge_status (merge.rs:726-759).
GetMergeStatus(r) ==
    LET in_merge == r.state \in MergeStates IN
    [in_merge |-> in_merge,
     conflicting_files |-> IF in_merge THEN ConflictingFiles(r) ELSE <<>>,
     their_branch |-> GetTheirBranch(r)]

\* s.trim().parse::<usize>().ok() of a counter file (merge.rs:479-484).
ParseCounter(file) == IF file \in {"1", "2"} THEN file ELSE "None"

StopReason_MarkersFirst(r, conflicting_files) ==
    IF RebaseMergeDirExists(r) /\ r.control.done_last \in {"edit", "e"} THEN "Edit"
    ELSE IF RebaseMergeDirExists(r) /\ r.control.done_last \in {"reword", "r"} THEN "Reword"
    ELSE IF conflicting_files # <<>> THEN "Conflict"
    ELSE "Other"

\* The stop reason (merge.rs:520-559).
StopReason(r, conflicting_files) ==
    IF conflicting_files # <<>> THEN "Conflict"
    ELSE IF RebaseMergeDirExists(r) THEN
        CASE r.control.done_last \in {"edit", "e"} -> "Edit"
          [] r.control.done_last \in {"reword", "r"} -> "Reword"
          [] r.control.done_last \in {"squash", "s", "fixup", "f"} ->
                IF r.control.message_squash \/ r.control.message_fixup
                THEN "SquashMessage" ELSE "Other"
          [] OTHER ->
                IF r.control.amend THEN "Edit"
                ELSE IF r.control.message THEN "Reword"
                ELSE "Other"
    ELSE "Other"

\* get_interactive_rebase_state (merge.rs:444-572).
GetInteractiveRebaseState(r) ==
    IF r.state \notin RebaseStates
    THEN [in_rebase |-> FALSE, is_interactive |-> FALSE,
          current_step |-> "None", total_steps |-> "None", stop_reason |-> "None",
          conflicting_files |-> <<>>, onto_ref |-> "None", current_message |-> FALSE]
    ELSE [in_rebase |-> TRUE, is_interactive |-> RebaseMergeDirExists(r),
          current_step |-> ParseCounter(r.control.msgnum),
          total_steps |-> ParseCounter(r.control.end),
          stop_reason |-> StopReason(r, ConflictingFiles(r)),
          conflicting_files |-> ConflictingFiles(r),
          onto_ref |-> GetRebaseOntoRef(r),
          current_message |-> r.control.message]

\* ---- the external git tool -------------------------------------------

\* What one run of the tool leaves: output.status.success(), whether the
\* combined output holds "CONFLICT" or "could not apply", whether it holds
\* "Stopped at" or "You can amend", and the repository afterwards.
Outcome(success, has_conflict, has_stopped, r) ==
    [success |-> success, has_conflict |-> has_conflict,
     has_stopped |-> has_stopped, repo |-> r]

\* The repository once an operation has ended.
CleanRepo == [state |-> "Clean", conflicted |-> {},
              worktree |-> [p \in Paths |-> "resolved"], control |-> NoControl]

\* The repository with the step in progress thrown away.
ResetStep(r) == [r EXCEPT !.conflicted = {},
                          !.worktree = [p \in Paths |-> "resolved"]]

\* The rebase stopped at a later step that conflicts.
ConflictStops(r) ==
    { [r EXCEPT !.conflicted = c,
                !.worktree = [p \in Paths |-> IF p \in c THEN "markers" ELSE @[p]],
                !.control = IF r.state = "Rebase" THEN NoControl
                            ELSE [NoControl EXCEPT !.done_last = "pick", !.message = TRUE]] :
        c \in (SUBSET Paths) \ {{}} }

\* The interactive rebase stopped at a later edit, reword or squash step.
EditStops(r) ==
    IF r.state # "RebaseInteractive" THEN {}
    ELSE { [r EXCEPT !.control = ctl] :
             ctl \in { [NoControl EXCEPT !.done_last = "edit", !.amend = TRUE],
                       [NoControl EXCEPT !.done_last = "reword", !.message = TRUE],
                       [NoControl EXCEPT !.done_last = "squash", !.message = TRUE,
                                         !.message_squash = TRUE] } }

\* The ways a rebase goes on from r, a repository without conflicts: it
\* ends, stops at a conflict, stops for editing, or fails and changes nothing.
RebaseGoesOn(r, unchanged) ==
    {Outcome(TRUE, FALSE, FALSE, CleanRepo)}
      \cup { Outcome(FALSE, TRUE, stopped, q) : stopped \in BOOLEAN, q \in ConflictStops(r) }
      \cup { Outcome(ok, FALSE, TRUE, q) : ok \in BOOLEAN, q \in EditStops(r) }
      \cup {Outcome(FALSE, FALSE, FALSE, unchanged)}

\* git rebase --continue.
GitRebaseContinue(r) ==
    IF r.state \notin RebaseStates \/ r.conflicted # {}
    THEN {Outcome(FALSE, FALSE, FALSE, r)}
    ELSE RebaseGoesOn(r, r)

\* git rebase --skip.
GitRebaseSkip(r) ==
    IF r.state \notin RebaseStates
    THEN {Outcome(FALSE, FALSE, FALSE, r)}
    ELSE RebaseGoesOn(ResetStep(r), r)

\* git rebase --abort.
GitRebaseAbort(r) ==
    IF r.state \notin RebaseStates
    THEN {Outcome(FALSE, FALSE, FALSE, r)}
    ELSE {Outcome(TRUE, FALSE, FALSE, CleanRepo), Outcome(FALSE, FALSE, FALSE, r)}

\* git merge --abort.
GitMergeAbort(r) ==
    IF r.state # "Merge"
    THEN {Outcome(FALSE, FALSE, FALSE, r)}
    ELSE {Outcome(TRUE, FALSE, FALSE, CleanRepo), Outcome(FALSE, FALSE, FALSE, r)}

\* git commit --no-edit: refused while a path is unmerged; concludes a merge
\* or a single cherry-pick; otherwise commits what is staged, if anything.
GitCommitNoEdit(r) ==
    IF r.conflicted # {}
    THEN {Outcome(FALSE, FALSE, FALSE, r)}
    ELSE IF r.state \in {"Merge", "CherryPick"}
    THEN {Outcome(TRUE, FALSE, FALSE, CleanRepo), Outcome(FALSE, FALSE, FALSE, r)}
    ELSE {Outcome(TRUE, FALSE, FALSE, r), Outcome(FALSE, FALSE, FALSE, r)}

\* ---- the operations ----------------------------------------------------

Ok(msg) == [ok |-> TRUE, msg |-> msg]
Err(msg) == [ok |-> FALSE, msg |-> msg]

\* The tool was not run / was run with this outcome.
NoTool == [ran |-> FALSE, success |-> FALSE, has_conflict |-> FALSE, has_stopped |-> FALSE]
ToolRun(out) == [ran |-> TRUE, success |-> out.success,
                 has_conflict |-> out.has_conflict, has_stopped |-> out.has_stopped]

\* What a call leaves: the repository, the returned value, the queries and
\* tool runs it made, in order, and the outcome of its tool run.
Ret(r, result, steps, tool) ==
    [repo |-> r, result |-> result, steps |-> steps, tool |-> tool]

StatusQueries == {"get_rebase_status", "get_interactive_rebase_state", "get_merge_status"}
ToolSteps == {"git rebase --continue", "git rebase --skip", "git rebase --abort",
              "git merge --abort", "git commit --no-edit"}

\* A reader that clears the rebase directory's control files as it reads.
AfterRead_ConsumesControl(r) == [r EXCEPT !.control = NoControl]

\* The repository after a state reader has run: repo.state(), repo.statuses()
\* and fs::read_to_string write nothing (merge.rs:95-130, 444-572, 726-759).
AfterRead(r) == r

\* A continue_rebase that takes a stop for editing as success.
ContinueRebaseResult_StoppedIsOk(out) ==
    IF out.success \/ out.has_stopped THEN Ok("stdout")
    ELSE IF out.has_conflict
    THEN Err("Rebase has more conflicts that need to be resolved")
    ELSE Err("git rebase --continue failed")

\* The result of continue_rebase from the tool's outcome (merge.rs:233-247).
ContinueRebaseResult(out) ==
    IF out.success THEN Ok("stdout")
    ELSE IF out.has_conflict
    THEN Err("Rebase has more conflicts that need to be resolved")
    ELSE Err("git rebase --continue failed")

\* continue_rebase (merge.rs:213-248).
ContinueRebase(r) ==
    LET status == GetRebaseStatus(r) IN
    IF status.conflicting_files # <<>>
    THEN {Ret(r, Err("Cannot continue rebase: file(s) still have conflicts"),
              <<"get_rebase_status">>, NoTool)}
    ELSE { Ret(out.repo, ContinueRebaseResult(out),
               <<"get_rebase_status", "git rebase --continue">>, ToolRun(out)) :
             out \in GitRebaseContinue(r) }

\* abort_rebase (merge.rs:251-264).
AbortRebase(r) ==
    { Ret(out.repo,
          IF out.success THEN Ok("Rebase aborted successfully")
          ELSE Err("git rebase --abort failed"),
          <<"git rebase --abort">>, ToolRun(out)) :
        out \in GitRebaseAbort(r) }

\* The result of skip_rebase from the tool's outcome (merge.rs:275-287).
SkipRebaseResult(out) ==
    IF out.success THEN Ok("Skipped commit successfully")
    ELSE IF out.has_conflict
    THEN Err("Rebase has conflicts that need to be resolved")
    ELSE Err("git rebase --skip failed")

\* A skip_rebase that derives the conflicting files first and refuses while
\* there are any.
SkipRebase_Prechecked(r) ==
    IF GetRebaseStatus(r).conflicting_files # <<>>
    THEN {Ret(r, Err("Rebase has conflicts that need to be resolved"),
              <<"get_rebase_status">>, NoTool)}
    ELSE { Ret(out.repo, SkipRebaseResult(out),
               <<"get_rebase_status", "git rebase --skip">>, ToolRun(out)) :
             out \in GitRebaseSkip(r) }

\* skip_rebase (merge.rs:267-288).
SkipRebase(r) ==
    { Ret(out.repo, SkipRebaseResult(out), <<"git rebase --skip">>, ToolRun(out)) :
        out \in GitRebaseSkip(r) }

\* handle_rebase_continue_output (merge.rs:640-658).
HandleRebaseContinueOutput(out) ==
    IF out.success THEN Ok("stdout")
    ELSE IF out.has_conflict
    THEN Err("Rebase has more conflicts that need to be resolved")
    ELSE IF out.has_stopped
    THEN Ok("Rebase continued, stopped for editing")
    ELSE Err("git rebase --continue failed")

\* continue_interactive_rebase (merge.rs:576-638), with or without a
\* message: the message only changes the editor the tool is given.
ContinueInteractiveRebase(r) ==
    LET state == GetInteractiveRebaseState(r) IN
    IF state.conflicting_files # <<>>
    THEN {Ret(r, Err("Cannot continue rebase: file(s) still have conflicts"),
              <<"get_interactive_rebase_state">>, NoTool)}
    ELSE { Ret(out.repo, HandleRebaseContinueOutput(out),
               <<"get_interactive_rebase_state", "git rebase --continue">>, ToolRun(out)) :
             out \in GitRebaseContinue(r) }

\* save_resolved_file (merge.rs:861-866): the file is rewritten.
SaveResolvedFile(r, path, content) == [r EXCEPT !.worktree[path] = content]

\* A mark_file_resolved that stages every conflicted path.
MarkFileResolved_StagesAll(r, path) == [r EXCEPT !.conflicted = {}]

\* A mark_file_resolved that ends the operation with the last conflict.
MarkFileResolved_EndsOperation(r, path) ==
    IF r.conflicted \ {path} = {}
    THEN [r EXCEPT !.conflicted = {}, !.state = "Clean", !.control = NoControl]
    ELSE [r EXCEPT !.conflicted = @ \ {path}]

\* mark_file_resolved (merge.rs:869-874): index.add_path replaces the path's
\* conflict entries by the staged file.
MarkFileResolved(r, path) == [r EXCEPT !.conflicted = @ \ {path}]

\* An abort_merge that reports success whatever the tool's exit status.
AbortMerge_AlwaysOk(r) ==
    { Ret(out.repo, Ok("Merge aborted successfully"),
          <<"git merge --abort">>, ToolRun(out)) :
        out \in GitMergeAbort(r) }

\* abort_merge (merge.rs:877-890).
AbortMerge(r) ==
    { Ret(out.repo,
          IF out.success THEN Ok("Merge aborted successfully")
          ELSE Err("git merge --abort failed"),
          <<"git merge --abort">>, ToolRun(out)) :
        out \in GitMergeAbort(r) }

\* A continue_merge that runs the tool without looking at the conflicts.
ContinueMerge_NoCheck(r) ==
    { Ret(out.repo,
          IF out.success THEN Ok("stdout") ELSE Err("Failed to complete merge"),
          <<"get_merge_status", "git commit --no-edit">>, ToolRun(out)) :
        out \in GitCommitNoEdit(r) }

\* continue_merge (merge.rs:915-948).
ContinueMerge(r) ==
    LET status == GetMergeStatus(r) IN
    IF status.conflicting_files # <<>>
    THEN {Ret(r, Err("Cannot continue merge: file(s) still have conflicts"),
              <<"get_merge_status">>, NoTool)}
    ELSE { Ret(out.repo,
               IF out.success THEN Ok("stdout") ELSE Err("Failed to complete merge"),
               <<"get_merge_status", "git commit --no-edit">>, ToolRun(out)) :
             out \in GitCommitNoEdit(r) }

\* ---- the calls, as the commands of commands/mod.rs issue them ---------

NoCall == [op |-> "none", path |-> 0, has_message |-> FALSE, had_conflicts |-> FALSE,
           result |-> Ok("none"), steps |-> <<>>, tool |-> NoTool]

\* The record of a call of op that ended as ret; had_conflicts tells whether
\* the index held conflicted paths when the call was issued.
Call(op, path, has_message, ret) ==
    [op |-> op, path |-> path, has_message |-> has_message,
     had_conflicts |-> repo.conflicted # {},
     result |-> ret.result, steps |-> ret.steps, tool |-> ret.tool]

OpsInit ==
    /\ repo \in RepoSnapshots
    /\ last_call = NoCall
    /\ ParseIdle
    /\ GraphIdle
    /\ ToolIdle

GetRebaseStatusCall ==
    /\ repo' = AfterRead(repo)
    /\ last_call' = Call("get_rebase_status", 0, FALSE,
                         Ret(repo', GetRebaseStatus(repo),
                             <<"get_rebase_status">>, NoTool))
    /\ UNCHANGED <<parseVars, graphVars, toolVars>>

GetInteractiveRebaseStateCall ==
    /\ repo' = AfterRead(repo)
    /\ last_call' = Call("get_interactive_rebase_state", 0, FALSE,
                         Ret(repo', GetInteractiveRebaseState(repo),
                             <<"get_interactive_rebase_state">>, NoTool))
    /\ UNCHANGED <<parseVars, graphVars, toolVars>>

GetMergeStatusCall ==
    /\ repo' = AfterRead(repo)
    /\ last_call' = Call("get_merge_status", 0, FALSE,
                         Ret(repo', GetMergeStatus(repo),
                             <<"get_merge_status">>, NoTool))
    /\ UNCHANGED <<parseVars, graphVars, toolVars>>

\* parse_file_conflicts (merge.rs:788-858) reads the file and writes nothing;
\* SpecParse models what it returns.
ParseFileConflictsCall ==
    /\ UNCHANGED <<parseVars, graphVars, toolVars>>
    /\ \E path \in Paths :
            /\ repo' = repo
            /\ last_call' = Call("parse_file_conflicts", path, FALSE,
                                 Ret(repo, [ok |-> TRUE, msg |-> repo.worktree[path]],
                                     <<>>, NoTool))

SaveResolvedFileCall ==
    /\ UNCHANGED <<parseVars, graphVars, toolVars>>
    /\ \E path \in Paths, content \in Contents :
            /\ repo' = SaveResolvedFile(repo, path, content)
            /\ last_call' = Call("save_resolved_file", path, FALSE,
                                 Ret(repo', Ok("unit"), <<>>, NoTool))

MarkFileResolvedCall ==
    /\ UNCHANGED <<parseVars, graphVars, toolVars>>
    /\ \E path \in Paths :
            /\ repo' = MarkFileResolved(repo, path)
            /\ last_call' = Call("mark_file_resolved", path, FALSE,
                                 Ret(repo', Ok("unit"), <<>>, NoTool))

ContinueRebaseCall ==
    /\ UNCHANGED <<parseVars, graphVars, toolVars>>
    /\ \E ret \in ContinueRebase(repo) :
            /\ repo' = ret.repo
            /\ last_call' = Call("continue_rebase", 0, FALSE, ret)

ContinueInteractiveRebaseCall ==
    /\ UNCHANGED <<parseVars, graphVars, toolVars>>
    /\ \E has_message \in BOOLEAN, ret \in ContinueInteractiveRebase(repo) :
            /\ repo' = ret.repo
            /\ last_call' = Call("continue_interactive_rebase", 0, has_message, ret)

SkipRebaseCall ==
    /\ UNCHANGED <<parseVars, graphVars, toolVars>>
    /\ \E ret \in SkipRebase(repo) :
            /\ repo' = ret.repo
            /\ last_call' = Call("skip_rebase", 0, FALSE, ret)

AbortRebaseCall ==
    /\ UNCHANGED <<parseVars, graphVars, toolVars>>
    /\ \E ret \in AbortRebase(repo) :
            /\ repo' = ret.repo
            /\ last_call' = Call("abort_rebase", 0, FALSE, ret)

ContinueMergeCall ==
    /\ UNCHANGED <<parseVars, graphVars, toolVars>>
    /\ \E ret \in ContinueMerge(repo) :
            /\ repo' = ret.repo
            /\ last_call' = Call("continue_merge", 0, FALSE, ret)

AbortMergeCall ==
    /\ UNCHANGED <<parseVars, graphVars, toolVars>>
    /\ \E ret \in AbortMerge(repo) :
            /\ repo' = ret.repo
            /\ last_call' = Call("abort_merge", 0, FALSE, ret)

OpsNext ==
    \/ GetRebaseStatusCall
    \/ GetInteractiveRebaseStateCall
    \/ GetMergeStatusCall
    \/ ParseFileConflictsCall
    \/ SaveResolvedFileCall
    \/ MarkFileResolvedCall
    \/ ContinueRebaseCall
    \/ ContinueInteractiveRebaseCall
    \/ SkipRebaseCall
    \/ AbortRebaseCall
    \/ ContinueMergeCall
    \/ AbortMergeCall

SpecOps == OpsInit /\ [][OpsNext]_vars

\* ========================================================================
\* The reading of the tool's output
\* ========================================================================

\* The phrases the operations search the tool's output for (merge.rs:204,
\* 242, 282, 432-434, 649-651, 906).
Phrases == {"CONFLICT", "could not apply", "Resolve all conflicts",
            "Automatic merge failed", "Stopped at", "You can amend"}

\* std::process::Output: the exit status and the two streams, each stream
\* given by the phrases it contains.
Outputs == [success : BOOLEAN, stdout : SUBSET Phrases, stderr : SUBSET Phrases]

\* format!("{}{}", stderr, stdout) (merge.rs:200, 239, 279, 428, 646).
Combined(o) == o.stderr \cup o.stdout

\* str::contains for any of the phrases ps.
Contains(text, ps) == text \cap ps # {}

\* The output as the rebase operations test it: the exit status, whether the
\* combined output holds "CONFLICT" or "could not apply", whether it holds
\* "Stopped at" or "You can amend".
Tested(o) ==
    [success |-> o.success,
     has_conflict |-> Contains(Combined(o), {"CONFLICT", "could not apply"}),
     has_stopped |-> Contains(Combined(o), {"Stopped at", "You can amend"})]

\* rebase_onto (merge.rs:195-209).
RebaseOntoResult(o) ==
    IF o.success THEN Ok("stdout")
    ELSE IF Contains(Combined(o), {"CONFLICT", "could not apply", "Resolve all conflicts"})
    THEN Err("Rebase has conflicts that need to be resolved")
    ELSE Err("git rebase failed")

\* A start_interactive_rebase that looks for the stop before the conflict.
StartInteractiveRebaseResult_StopFirst(out) ==
    IF out.success THEN Ok("stdout")
    ELSE IF out.has_stopped THEN Ok("Rebase started, stopped for editing")
    ELSE IF out.has_conflict THEN Err("Rebase has conflicts that need to be resolved")
    ELSE Err("git rebase -i failed")

\* start_interactive_rebase (merge.rs:423-440).
StartInteractiveRebaseResult(out) ==
    IF out.success THEN Ok("stdout")
    ELSE IF out.has_conflict THEN Err("Rebase has conflicts that need to be resolved")
    ELSE IF out.has_stopped THEN Ok("Rebase started, stopped for editing")
    ELSE Err("git rebase -i failed")

\* merge_branch (merge.rs:900-911): only stderr is searched.
MergeBranchResult(o) ==
    IF o.success THEN Ok("stdout")
    ELSE IF Contains(o.stderr, {"CONFLICT", "Automatic merge failed"})
    THEN Err("Merge has conflicts that need to be resolved")
    ELSE Err("git merge failed")

\* The operations whose run of the tool can end in a conflict.
ConflictOps == {"rebase_onto", "continue_rebase", "skip_rebase",
                "start_interactive_rebase", "continue_interactive_rebase",
                "merge_branch"}

\* What the operation op returns for the output o of its run of the tool.
ResultOf(op, o) ==
    CASE op = "rebase_onto" -> RebaseOntoResult(o)
      [] op = "continue_rebase" -> ContinueRebaseResult(Tested(o))
      [] op = "skip_rebase" -> SkipRebaseResult(Tested(o))
      [] op = "start_interactive_rebase" -> StartInteractiveRebaseResult(Tested(o))
      [] op = "continue_interactive_rebase" -> HandleRebaseContinueOutput(Tested(o))
      [] op = "merge_branch" -> MergeBranchResult(o)

\* The text the operation formats into the message of its "... failed: {}"
\* error (merge.rs:207, 245, 285, 438, 655, 909).
FailureText(op, o) == IF op = "merge_branch" THEN o.stderr ELSE Combined(o)

OutputInit ==
    /\ output \in Outputs
    /\ classified = NoResult
    /\ RenderIdle
    /\ StartIdle
    /\ ReadIdle
    /\ ParseIdle
    /\ GraphIdle
    /\ OpsIdle

\* One of the operations reads the output of its run of the tool.
ReadOutput ==
    /\ classified = NoResult
    /\ \E op \in ConflictOps :
          classified' = [op |-> op, result |-> ResultOf(op, output),
                         failure_text |-> FailureText(op, output)]
    /\ UNCHANGED <<output, renderVars, startVars, readVars>>
    /\ UNCHANGED <<parseVars, graphVars, opsVars>>

OutputNext == ReadOutput

SpecOutput == OutputInit /\ [][OutputNext]_vars

\* ========================================================================
\* The todo rendering of start_interactive_rebase
\* ========================================================================

\* RebaseTodoAction (merge.rs:15-22).
RebaseTodoActions == {"Pick", "Reword", "Edit", "Squash", "Fixup", "Drop"}

\* RebaseTodoAction::to_git_command (merge.rs:24-35).
ToGitCommand(action) ==
    CASE action = "Pick" -> "pick"
      [] action = "Reword" -> "reword"
      [] action = "Edit" -> "edit"
      [] action = "Squash" -> "squash"
      [] action = "Fixup" -> "fixup"
      [] action = "Drop" -> "drop"

HexDigits == <<"0", "1", "2", "3", "4", "5", "6", "7",
               "8", "9", "a", "b", "c", "d", "e", "f">>

\* A commit id of n characters, as the sequence of its characters; commit
\* ids are hexadecimal, so every character is one byte.
CommitIdOfLen(n) == [k \in 1..n |-> HexDigits[(k % 16) + 1]]

\* The commit ids of the plans: abbreviated to fewer than 7, to 7 and to 8
\* characters, and a full 40-character object name.
PlanCommitIds == { CommitIdOfLen(n) : n \in {6, 7, 8, 40} }

\* InteractiveRebasePlanEntry (merge.rs:51-55); new_message is None or Some.
PlanEntries == [commit_id : PlanCommitIds, action : RebaseTodoActions,
                new_message : {"None", "Some"}]

Plans == UNION { [1..n -> PlanEntries] : n \in 0..MaxPlan }

\* A short id that takes the last 7 characters.
ShortId_Last7(commit_id) ==
    IF Len(commit_id) > 7
    THEN SubSeq(commit_id, Len(commit_id) - 6, Len(commit_id))
    ELSE commit_id

\* merge.rs:368-372: the first 7 bytes of an id longer than 7 bytes.
ShortId(commit_id) ==
    IF Len(commit_id) > 7 THEN SubSeq(commit_id, 1, 7) ELSE commit_id

\* format!("{} {} \n", entry.action.to_git_command(), short_id)
\* (merge.rs:373-377), as a sequence of pieces of text.
TodoLine(entry) ==
    <<ToGitCommand(entry.action), " ">> \o ShortId(entry.commit_id) \o <<" ", "\n">>

\* The loop of merge.rs:366-378.
RECURSIVE RenderTodo(_)
RenderTodo(p) ==
    IF Len(p) = 0 THEN <<>>
    ELSE TodoLine(p[1]) \o RenderTodo(Tail(p))

RenderInit ==
    /\ plan \in Plans
    /\ todo_content = NoResult
    /\ OutputIdle
    /\ StartIdle
    /\ ReadIdle
    /\ ParseIdle
    /\ GraphIdle
    /\ OpsIdle

\* The early return for an empty plan (merge.rs:361-363).
RenderEmptyPlan ==
    /\ todo_content = NoResult
    /\ Len(plan) = 0
    /\ todo_content' = Err("Rebase plan cannot be empty")
    /\ UNCHANGED <<plan, outputVars, startVars, readVars>>
    /\ UNCHANGED <<parseVars, graphVars, opsVars>>

\* The todo content is built (merge.rs:365-378).
RenderPlan ==
    /\ todo_content = NoResult
    /\ Len(plan) > 0
    /\ todo_content' = RenderTodo(plan)
    /\ UNCHANGED <<plan, outputVars, startVars, readVars>>
    /\ UNCHANGED <<parseVars, graphVars, opsVars>>

RenderNext == RenderEmptyPlan \/ RenderPlan

SpecRender == RenderInit /\ [][RenderNext]_vars

\* ========================================================================
\* The temporary files of start_interactive_rebase and of
\* continue_interactive_rebase with a message
\* ========================================================================

\* The invocations running at once, each on its own blocking worker thread
\* of the one process (commands/mod.rs:1852-1865, 1876-1888).
Invocations == {1, 2}

\* The temporary paths: std::env::temp_dir() joined with a name made of a
\* fixed word and std::process::id() (merge.rs:382-384, 595-597).
DataPath(kind) ==
    IF kind = "start" THEN "diffy-rebase-todo-<pid>.txt" ELSE "diffy-commit-msg-<pid>.txt"

ScriptPath(kind) ==
    IF kind = "start" THEN "diffy-rebase-editor-<pid>.sh" ELSE "diffy-msg-editor-<pid>.sh"

TempPaths == { DataPath(k) : k \in {"start", "continue"} }
               \cup { ScriptPath(k) : k \in {"start", "continue"} }

\* The requests: start_interactive_rebase with a plan, or
\* continue_interactive_rebase with a message, past its conflict check.
StartRequests ==
    { [kind |-> "start", payload |-> pl] :
        pl \in { <<>>,
                 <<[commit_id |-> CommitIdOfLen(8), action |-> "Pick", new_message |-> "None"]>>,
                 <<[commit_id |-> CommitIdOfLen(7), action |-> "Drop", new_message |-> "None"]>> } }

ContinueRequests ==
    { [kind |-> "continue", payload |-> m] : m \in { <<"message one">>, <<"message two">> } }

Requests == StartRequests \cup ContinueRequests

\* No file at a path.
Absent == [exists |-> FALSE, writer |-> 0, executable |-> FALSE]

\* fs::write by the invocation t: the file is created, or truncated and
\* rewritten; an existing file keeps its mode.
WriteFile(fs, path, t) ==
    [fs EXCEPT ![path] = [exists |-> TRUE, writer |-> t, executable |-> @.executable]]

\* fs::remove_file, its result ignored (merge.rs:420-421, 628-629).
RemoveFile(fs, path) == [fs EXCEPT ![path] = Absent]

\* The content the invocation t writes to its data file: the rendered todo
\* (merge.rs:387), or the message (merge.rs:600).
ContentOf(t) ==
    IF inv[t].kind = "start" THEN RenderTodo(inv[t].payload) ELSE inv[t].payload

\* An empty plan is never refused.
PlanIsEmpty_Never(p) == FALSE

\* plan.is_empty() (merge.rs:361).
PlanIsEmpty(p) == Len(p) = 0

\* The result for the tool's output (merge.rs:423-440, 632).
TempResult(kind, out) ==
    IF kind = "start" THEN StartInteractiveRebaseResult(out)
    ELSE HandleRebaseContinueOutput(out)

\* The invocation t goes to the position pc.
Goto(t, pc) == [inv EXCEPT ![t].pc = pc]

\* The invocation t returns result without going further.
ReturnOf(t, result) == [inv EXCEPT ![t].pc = "done", ![t].result = result]

StartInit ==
    /\ inv \in [Invocations ->
                 { [kind |-> r.kind, payload |-> r.payload, pc |-> "begin",
                    wrote |-> FALSE, spawned |-> FALSE, tool_todo |-> <<"not read">>,
                    result |-> NoResult] : r \in Requests }]
    /\ files = [path \in TempPaths |-> Absent]
    /\ OutputIdle
    /\ RenderIdle
    /\ ReadIdle
    /\ ParseIdle
    /\ GraphIdle
    /\ OpsIdle

\* merge.rs:361-363: an empty plan is refused.
RefuseEmptyPlan(t) ==
    /\ inv[t].pc = "begin"
    /\ inv[t].kind = "start" /\ PlanIsEmpty(inv[t].payload)
    /\ inv' = ReturnOf(t, Err("Rebase plan cannot be empty"))
    /\ UNCHANGED files
    /\ UNCHANGED notStartVars

\* merge.rs:365-384, 593-597: the content and the two paths are made.
Begin(t) ==
    /\ inv[t].pc = "begin"
    /\ ~(inv[t].kind = "start" /\ PlanIsEmpty(inv[t].payload))
    /\ inv' = Goto(t, "write_data")
    /\ UNCHANGED files
    /\ UNCHANGED notStartVars

\* merge.rs:387-388, 600-601: fs::write of the todo or message file.
WriteData(t) ==
    /\ inv[t].pc = "write_data"
    /\ \/ /\ files' = WriteFile(files, DataPath(inv[t].kind), t)
          /\ inv' = [inv EXCEPT ![t].pc = "write_script", ![t].wrote = TRUE]
       \/ /\ inv' = ReturnOf(t, Err("Failed to write file"))
          /\ UNCHANGED files
    /\ UNCHANGED notStartVars

\* merge.rs:391-396, 604-609: fs::write of the editor script.
WriteScript(t) ==
    /\ inv[t].pc = "write_script"
    /\ \/ /\ files' = WriteFile(files, ScriptPath(inv[t].kind), t)
          /\ inv' = Goto(t, "metadata")
       \/ /\ inv' = ReturnOf(t, Err("Failed to write editor script"))
          /\ UNCHANGED files
    /\ UNCHANGED notStartVars

\* merge.rs:402-404, 614-616: fs::metadata of the script.
Metadata(t) ==
    /\ inv[t].pc = "metadata"
    /\ \/ /\ files[ScriptPath(inv[t].kind)].exists
          /\ inv' = Goto(t, "set_permissions")
       \/ inv' = ReturnOf(t, Err("Failed to get script permissions"))
    /\ UNCHANGED files
    /\ UNCHANGED notStartVars

\* merge.rs:405-407, 617-619: fs::set_permissions(0o755).
SetPermissions(t) ==
    /\ inv[t].pc = "set_permissions"
    /\ \/ /\ files[ScriptPath(inv[t].kind)].exists
          /\ files' = [files EXCEPT ![ScriptPath(inv[t].kind)].executable = TRUE]
          /\ inv' = Goto(t, "spawn")
       \/ /\ inv' = ReturnOf(t, Err("Failed to set script permissions"))
          /\ UNCHANGED files
    /\ UNCHANGED notStartVars

\* merge.rs:411-417, 623-624: the tool is spawned with the script as its
\* editor, or cannot be spawned.
Spawn(t) ==
    /\ inv[t].pc = "spawn"
    /\ \/ inv' = [inv EXCEPT ![t].pc = "tool", ![t].spawned = TRUE]
       \/ inv' = ReturnOf(t, Err("Failed to run git rebase"))
    /\ UNCHANGED files
    /\ UNCHANGED notStartVars

\* The tool runs while the invocation waits in .output(): it exits without
\* calling its editor, or calls the script, which copies the data file.
ToolRuns(t) ==
    /\ inv[t].pc = "tool"
    /\ LET script == files[ScriptPath(inv[t].kind)]
           data == files[DataPath(inv[t].kind)]
       IN \/ inv' = Goto(t, "remove_script")
          \/ inv' = [inv EXCEPT ![t].pc = "remove_script",
                                ![t].tool_todo =
                                   IF script.exists /\ script.executable /\ data.exists
                                   THEN ContentOf(data.writer)
                                   ELSE <<"editor failed">>]
    /\ UNCHANGED files
    /\ UNCHANGED notStartVars

\* merge.rs:420, 628.
RemoveScript(t) ==
    /\ inv[t].pc = "remove_script"
    /\ files' = RemoveFile(files, ScriptPath(inv[t].kind))
    /\ inv' = Goto(t, "remove_data")
    /\ UNCHANGED notStartVars

\* merge.rs:421, 629.
RemoveData(t) ==
    /\ inv[t].pc = "remove_data"
    /\ files' = RemoveFile(files, DataPath(inv[t].kind))
    /\ inv' = Goto(t, "return")
    /\ UNCHANGED notStartVars

\* merge.rs:423-440, 631: the result is made of the tool's output; a tool
\* whose editor failed has failed.
Return(t) ==
    /\ inv[t].pc = "return"
    /\ \E out \in [success : BOOLEAN, has_conflict : BOOLEAN, has_stopped : BOOLEAN] :
          /\ inv[t].tool_todo = <<"editor failed">> => ~out.success
          /\ inv' = ReturnOf(t, TempResult(inv[t].kind, out))
    /\ UNCHANGED files
    /\ UNCHANGED notStartVars

StartNext ==
    \E t \in Invocations :
        \/ RefuseEmptyPlan(t)
        \/ Begin(t)
        \/ WriteData(t)
        \/ WriteScript(t)
        \/ Metadata(t)
        \/ SetPermissions(t)
        \/ Spawn(t)
        \/ ToolRuns(t)
        \/ RemoveScript(t)
        \/ RemoveData(t)
        \/ Return(t)

SpecStart == StartInit /\ [][StartNext]_vars

\* ========================================================================
\* The diff requests and the patch text (diff.rs)
\* ========================================================================

\* The bytes a working-directory file is made of: two letters, the line
\* feed, the carriage return, the NUL byte, and a byte (such as 0xFF) that
\* no valid UTF-8 text holds.
Bytes == {"a", "b", "\n", "\r", "NUL", "BAD"}

\* Vec<u8> values of up to n bytes.
ByteStrings(n) == UNION { [1..k -> Bytes] : k \in 0..n }

\* std::fs::read(&full_path) (diff.rs:196, 384): the bytes, or an error.
Readable(bytes) == [readable |-> TRUE, bytes |-> bytes]
Unreadable == [readable |-> FALSE, bytes |-> <<>>]

\* The working-directory files of the diffs of several deltas: one that
\* cannot be read, a binary one and a text file of two lines.
SomeFiles == {Unreadable, Readable(<<"a", "NUL">>), Readable(<<"a", "\n", "b">>)}

\* git2::Delta, as diff_to_unified matches it (diff.rs:284-293).
TrackedStatuses == {"Added", "Deleted", "Modified", "Renamed", "Copied", "Typechange"}
Statuses == TrackedStatuses \cup {"Untracked"}

\* What the library gives for one delta at git2::Patch::from_diff,
\* patch.num_hunks() and patch.to_buf() (diff.rs:158-161, 297):
\*   "Err"     from_diff fails (the blob of the delta cannot be read),
\*   "None"    from_diff returns Ok(None),
\*   "NoHunks" a patch with no hunk,
\*   "Hunks"   a patch with hunks whose to_buf() is the text of the patch,
\*   "BufErr"  a patch with hunks whose to_buf() fails.
PatchOutcomes == {"Err", "None", "NoHunks", "Hunks", "BufErr"}

\* The library produces no hunk for an untracked file: the diff is made
\* without the content of untracked files (diff.rs:137, 159).
UntrackedOutcomes == {"Err", "None", "NoHunks"}

\* patch.line_stats() of a patch with hunks (diff.rs:298).
HunkStats == <<2, 1>>

\* The old path of the delta whose new path is path, when the delta is a
\* rename or a copy; libgit2 gives every other delta the same path on both
\* sides.
OldPathOf(status, path) ==
    IF status \in {"Renamed", "Copied"} THEN path + 100 ELSE path

Delta(status, path, same_id, from_diff, file) ==
    [status |-> status, new_path |-> path, old_path |-> OldPathOf(status, path),
     same_id |-> same_id, from_diff |-> from_diff, workdir_file |-> file]

\* The deltas the library can report at the path: every status with a patch
\* that fails, has no hunk or has hunks; a modified file also with no patch
\* and with a patch that cannot be printed; a rename or copy of unchanged
\* content, which has no hunk.
TrackedDeltasAt(path) ==
    { Delta(st, path, FALSE, out, Unreadable) :
        st \in TrackedStatuses, out \in {"Err", "NoHunks", "Hunks"} }
      \cup { Delta("Modified", path, FALSE, out, Unreadable) : out \in {"None", "BufErr"} }
      \cup { Delta(st, path, TRUE, "NoHunks", Unreadable) : st \in {"Renamed", "Copied"} }

UntrackedDeltasAt(path, contents) ==
    { Delta("Untracked", path, FALSE, out, f) : out \in UntrackedOutcomes, f \in contents }

\* The diffs of n deltas, in path order.
DiffsOf(n) ==
    { d \in [1..n -> UNION { TrackedDeltasAt(p) \cup UntrackedDeltasAt(p, SomeFiles) :
                               p \in 1..n }] :
        \A i \in 1..n : d[i].new_path = i }

\* The diffs whose only delta is an untracked file of any content.
UntrackedDiffs ==
    { <<dl>> : dl \in UntrackedDeltasAt(1, {Unreadable} \cup
                                            { Readable(b) : b \in ByteStrings(MaxBytes) }) }

Diffs == UntrackedDiffs \cup UNION { DiffsOf(n) : n \in 0..MaxDeltas }

\* ---- the text of a patch: a sequence of lines --------------------------

Line(kind, path, n, text) == [kind |-> kind, path |-> path, n |-> n, text |-> text]

\* "diff --git a/{path} b/{path}", "new file mode 100644", "--- /dev/null"
\* and "+++ b/{path}" (diff.rs:204-207, 221-224, 230-233).
FileHeader(path) ==
    <<Line("diff --git a/{path} b/{path}", path, 0, <<>>),
      Line("new file mode 100644", path, 0, <<>>),
      Line("--- /dev/null", path, 0, <<>>),
      Line("+++ b/{path}", path, 0, <<>>)>>

\* The text the library prints for a delta with hunks: its own file header
\* and its hunks.
LibraryPatch(delta) ==
    <<Line("diff --git a/{path} b/{path}", delta.new_path, 0, <<>>),
      Line("git2 hunks", delta.new_path, 0, <<>>)>>

Some(v) == [some |-> TRUE, value |-> v]
Nothing == [some |-> FALSE, value |-> <<>>]

\* ---- generate_untracked_file_patch (diff.rs:189-246) -------------------

IsBinary_NulOnly(bytes) == \E k \in DOMAIN bytes : bytes[k] = "NUL"

\* bytes.contains(&0u8) || std::str::from_utf8(&bytes).is_err()
IsBinary(bytes) ==
    \/ \E k \in DOMAIN bytes : bytes[k] = "NUL"
    \/ \E k \in DOMAIN bytes : bytes[k] = "BAD"

\* A line without the carriage return of its "\r\n" ending.
StripCr(line) ==
    IF Len(line) > 0 /\ line[Len(line)] = "\r"
    THEN SubSeq(line, 1, Len(line) - 1)
    ELSE line

\* str::lines(): the text is cut at every "\n"; a line loses the "\r" that
\* stands before its "\n"; what follows the last "\n" is a line unless it
\* is empty.
RECURSIVE SplitLines(_, _)
SplitLines(s, cur) ==
    IF s = <<>> THEN (IF cur = <<>> THEN <<>> ELSE <<cur>>)
    ELSE IF Head(s) = "\n" THEN <<StripCr(cur)>> \o SplitLines(Tail(s), <<>>)
    ELSE SplitLines(Tail(s), Append(cur, Head(s)))

StrLines_KeepLast(s) ==
    IF s # <<>> /\ s[Len(s)] = "\n" THEN Append(SplitLines(s, <<>>), <<>>)
    ELSE SplitLines(s, <<>>)

StrLines(s) == SplitLines(s, <<>>)

\* diff.rs:229-243: the hunk header and one "+" line per line.
AddedLines(path, file_lines) ==
    <<Line("@@ -0,0 +1,{line_count} @@", path, Len(file_lines), <<>>)>>
      \o [k \in 1..Len(file_lines) |-> Line("+", path, 0, file_lines[k])]

GenerateUntrackedFilePatch_HeaderWhenUnreadable(path, file) ==
    IF ~file.readable THEN Some(FileHeader(path))
    ELSE IF IsBinary(file.bytes)
    THEN Some(FileHeader(path)
              \o <<Line("Binary files /dev/null and b/{path} differ", path, 0, <<>>)>>)
    ELSE IF Len(StrLines(file.bytes)) = 0
    THEN Some(FileHeader(path))
    ELSE Some(FileHeader(path) \o AddedLines(path, StrLines(file.bytes)))

GenerateUntrackedFilePatch(path, file) ==
    IF ~file.readable THEN Nothing
    ELSE IF IsBinary(file.bytes)
    THEN Some(FileHeader(path)
              \o <<Line("Binary files /dev/null and b/{path} differ", path, 0, <<>>)>>)
    ELSE IF Len(StrLines(file.bytes)) = 0
    THEN Some(FileHeader(path))
    ELSE Some(FileHeader(path) \o AddedLines(path, StrLines(file.bytes)))

\* ---- count_file_lines (diff.rs:370-401) --------------------------------

CountFileLines(file) ==
    IF ~file.readable THEN <<0, 0>>
    ELSE IF \E k \in DOMAIN file.bytes : file.bytes[k] = "NUL" THEN <<0, 0>>
    ELSE IF \E k \in DOMAIN file.bytes : file.bytes[k] = "BAD" THEN <<0, 0>>
    ELSE <<Len(StrLines(file.bytes)), 0>>

\* ---- generate_patch_text (diff.rs:148-186) -----------------------------

\* What one delta adds to patch_text (diff.rs:154-182).
PatchOfDelta(delta) ==
    IF delta.from_diff = "Hunks" THEN LibraryPatch(delta)
    ELSE IF delta.status = "Untracked"
    THEN LET manual_patch == GenerateUntrackedFilePatch(delta.new_path, delta.workdir_file)
         IN IF manual_patch.some THEN manual_patch.value ELSE <<>>
    ELSE <<>>

RECURSIVE PatchTextFrom(_, _)
PatchTextFrom(d, idx) ==
    IF idx > Len(d) THEN <<>>
    ELSE PatchOfDelta(d[idx]) \o PatchTextFrom(d, idx + 1)

RECURSIVE PatchTextFrom_Reversed(_, _)
PatchTextFrom_Reversed(d, idx) ==
    IF idx > Len(d) THEN <<>>
    ELSE PatchTextFrom_Reversed(d, idx + 1) \o PatchOfDelta(d[idx])

GeneratePatchText_Reversed(d) == PatchTextFrom_Reversed(d, 1)

GeneratePatchText(d) == PatchTextFrom(d, 1)

\* ---- diff_to_unified (diff.rs:260-367) ---------------------------------

\* diff.rs:284-294.
StatusLetter(status) ==
    CASE status = "Added" -> "A"
      [] status = "Deleted" -> "D"
      [] status = "Modified" -> "M"
      [] status = "Renamed" -> "R"
      [] status = "Copied" -> "C"
      [] status = "Typechange" -> "T"
      [] OTHER -> "?"

OldPath_Always(delta) == Some(delta.old_path)

\* diff.rs:275-282.
OldPath(delta) ==
    IF delta.status \in {"Renamed", "Copied"} THEN Some(delta.old_path) ELSE Nothing

\* diff.rs:325-338.
Similarity(delta) ==
    IF delta.status \in {"Renamed", "Copied"}
    THEN (IF delta.same_id THEN Some(100) ELSE Some(50))
    ELSE Nothing

\* diff.rs:297-309: the statistics come from the library's patch whenever
\* from_diff returns one, and from count_file_lines only when it returns
\* none for an untracked file.
LineStats(delta) ==
    IF delta.from_diff \in {"NoHunks", "Hunks", "BufErr"}
    THEN (IF delta.from_diff = "NoHunks" THEN <<0, 0>> ELSE HunkStats)
    ELSE IF delta.status = "Untracked" THEN CountFileLines(delta.workdir_file)
    ELSE <<0, 0>>

\* diff.rs:267-358.
DiffFile(delta) ==
    [path |-> delta.new_path, old_path |-> OldPath(delta),
     status |-> StatusLetter(delta.status),
     additions |-> LineStats(delta)[1], deletions |-> LineStats(delta)[2],
     similarity |-> Similarity(delta)]

DiffToUnified(d) ==
    [ok |-> TRUE, files |-> [idx \in 1..Len(d) |-> DiffFile(d[idx])],
     patch |-> GeneratePatchText(d)]

\* ---- the requests ------------------------------------------------------

\* A commit id as a request gives it: a commit of the repository, a string
\* that is no object id, or the id of no commit (diff.rs:71-72).
CommitArgs == {"commit", "malformed", "unknown"}

DiffError == [ok |-> FALSE]

\* Only the comparison of the index with the working directory reports
\* untracked files (diff.rs:137-138).
HasUntracked(d) == \E i \in DOMAIN d : d[i].status = "Untracked"

\* opts.pathspec(file_path) (diff.rs:110): the deltas at the path.
RECURSIVE AtPath(_, _)
AtPath(d, file_path) ==
    IF d = <<>> THEN <<>>
    ELSE IF Head(d).new_path = file_path THEN <<Head(d)>> \o AtPath(Tail(d), file_path)
    ELSE AtPath(Tail(d), file_path)

DiffInit ==
    /\ diff \in Diffs
    /\ diff_call = NoResult
    /\ StateIdle
    /\ PlaceIdle
    /\ LateIdle
    /\ OutputIdle
    /\ RenderIdle
    /\ StartIdle
    /\ ParseIdle
    /\ GraphIdle
    /\ OpsIdle

\* get_commit_diff (diff.rs:70-90).
GetCommitDiff ==
    /\ diff_call = NoResult
    /\ ~HasUntracked(diff)
    /\ \E commit_id \in CommitArgs :
          diff_call' = [op |-> "get_commit_diff", staged |-> FALSE, file_path |-> 0,
                        commit_id |-> commit_id,
                        result |-> IF commit_id = "commit" THEN DiffToUnified(diff)
                                   ELSE DiffError]
    /\ UNCHANGED <<diff, stateVars, placeVars, lateVars>>
    /\ UNCHANGED notReadVars

\* get_file_diff (diff.rs:93-123).
GetFileDiff ==
    /\ diff_call = NoResult
    /\ ~HasUntracked(diff)
    /\ \E commit_id \in CommitArgs, file_path \in 1..MaxDeltas :
          diff_call' = [op |-> "get_file_diff", staged |-> FALSE, file_path |-> file_path,
                        commit_id |-> commit_id,
                        result |-> IF commit_id = "commit"
                                   THEN [ok |-> TRUE, path |-> file_path,
                                         patch |-> GeneratePatchText(AtPath(diff, file_path))]
                                   ELSE DiffError]
    /\ UNCHANGED <<diff, stateVars, placeVars, lateVars>>
    /\ UNCHANGED notReadVars

\* get_working_diff (diff.rs:126-145); repo.head() fails on a branch without
\* commits.
GetWorkingDiff ==
    /\ diff_call = NoResult
    /\ \E staged \in BOOLEAN, head_ok \in BOOLEAN :
          /\ staged => ~HasUntracked(diff)
          /\ ~staged => head_ok
          /\ diff_call' = [op |-> "get_working_diff", staged |-> staged, file_path |-> 0,
                           commit_id |-> "none",
                           result |-> IF staged /\ ~head_ok THEN DiffError
                                      ELSE DiffToUnified(diff)]
    /\ UNCHANGED <<diff, stateVars, placeVars, lateVars>>
    /\ UNCHANGED notReadVars

DiffNext == GetCommitDiff \/ GetFileDiff \/ GetWorkingDiff

SpecDiff == DiffInit /\ [][DiffNext]_vars

\* ========================================================================
\* get_interactive_rebase_state over the rebase directory (merge.rs:444-572)
\* ========================================================================

\* The repositories get_interactive_rebase_state can find: any operation
\* state, any set of conflicted index entries and, during a rebase that has
\* .git/rebase-merge, any content of its control files.
Disks ==
    { r \in [state : RepositoryStates, conflicted : SUBSET Paths, control : Controls] :
        r.state \notin {"RebaseInteractive", "RebaseMerge"} => r.control = NoControl }

StateInit ==
    /\ disk \in Disks
    /\ state_read = NoResult
    /\ DiffIdle
    /\ PlaceIdle
    /\ LateIdle
    /\ OutputIdle
    /\ RenderIdle
    /\ StartIdle
    /\ ParseIdle
    /\ GraphIdle
    /\ OpsIdle

\* get_interactive_rebase_state (merge.rs:444-572) reads and writes nothing.
ReadState ==
    /\ state_read = NoResult
    /\ state_read' = GetInteractiveRebaseState(disk)
    /\ UNCHANGED <<disk, diffVars, placeVars, lateVars>>
    /\ UNCHANGED notReadVars

StateNext == ReadState

SpecState == StateInit /\ [][StateNext]_vars

\* ========================================================================
\* The file watcher (watcher.rs) behind start_watching and stop_watching
\* ========================================================================

\* The repositories a client asks to watch.
RepoPaths == {"A", "B"}

\* A RepoWatcher is named by the index of the setup thread that creates it;
\* the empty slot (Option::None) is 0.
SetupThreads == 1..Len(setup_threads)

\* The thread, if any, between watcher_arc.lock() (watcher.rs:118) and the
\* end of its closure, where the guard is dropped.
HoldsLock(t) == setup_threads[t].pc \in {"stop", "create", "start", "store"}
LockFree == \A t \in SetupThreads : ~HoldsLock(t)

\* The results of a call into RepoWatcher::new, start or stop.
Results == {"Ok", "Err"}

\* RepoWatcher::stop (watcher.rs:86-93): on Ok the path is no longer
\* watched; on Err nothing has changed.
Stop(w, result) == IF result = "Ok" THEN watching \ {w} ELSE watching

\* A value dropped from the slot or from a local: its debouncer, and with
\* it the watch of its path, is gone.
Drop(w, active) == active \ {w}

At(t, pc) == [setup_threads EXCEPT ![t].pc = pc]
Failed(t) == [setup_threads EXCEPT ![t].pc = "done", ![t].failed = TRUE]

WatchInit ==
    /\ watcher = 0
    /\ setup_threads = <<>>
    /\ watching = {}
    /\ watch_calls = <<>>
    /\ IterIdle
    /\ SquashIdle
    /\ NotLateIdle

\* start_watching (commands/mod.rs:2663-2674) calls WatcherState::watch,
\* which spawns the setup thread and returns Ok (watcher.rs:113-117, 146).
StartWatching ==
    /\ Len(watch_calls) < MaxCalls
    /\ \E repo_path \in RepoPaths :
          /\ watch_calls' = Append(watch_calls,
                 [op |-> "start_watching", repo_path |-> repo_path, ok |-> TRUE])
          /\ setup_threads' = Append(setup_threads,
                 [repo_path |-> repo_path, pc |-> "lock", failed |-> FALSE])
    /\ UNCHANGED <<watcher, watching>>
    /\ UNCHANGED <<iterVars, squashVars>>
    /\ UNCHANGED notLateVars

\* watcher.rs:118-124: the setup thread takes the lock.
AcquireLock(t) ==
    /\ setup_threads[t].pc = "lock"
    /\ LockFree
    /\ setup_threads' = At(t, "stop")
    /\ UNCHANGED <<watcher, watching, watch_calls>>
    /\ UNCHANGED <<iterVars, squashVars>>
    /\ UNCHANGED notLateVars

\* watcher.rs:126-129: the stored watcher, if any, is stopped; the result of
\* stop is discarded and the watcher stays in the slot.
StopExisting(t) ==
    /\ setup_threads[t].pc = "stop"
    /\ IF watcher # 0
       THEN \E result \in Results : watching' = Stop(watcher, result)
       ELSE UNCHANGED watching
    /\ setup_threads' = At(t, "create")
    /\ UNCHANGED <<watcher, watch_calls>>
    /\ UNCHANGED <<iterVars, squashVars>>
    /\ UNCHANGED notLateVars

\* watcher.rs:132, 140-142: RepoWatcher::new; on Err the closure ends.
NewWatcher(t) ==
    /\ setup_threads[t].pc = "create"
    /\ \E result \in Results :
          setup_threads' = IF result = "Ok" THEN At(t, "start") ELSE Failed(t)
    /\ UNCHANGED <<watcher, watching, watch_calls>>
    /\ UNCHANGED <<iterVars, squashVars>>
    /\ UNCHANGED notLateVars

\* watcher.rs:134-137: watcher.start(); on Err the closure returns and the
\* new watcher is dropped.
StartWatcher(t) ==
    /\ setup_threads[t].pc = "start"
    /\ \E result \in Results :
          IF result = "Ok"
          THEN /\ watching' = watching \cup {t}
               /\ setup_threads' = At(t, "store")
          ELSE /\ watching' = Drop(t, watching)
               /\ setup_threads' = Failed(t)
    /\ UNCHANGED <<watcher, watch_calls>>
    /\ UNCHANGED <<iterVars, squashVars>>
    /\ UNCHANGED notLateVars

\* watcher.rs:138: the new watcher is stored; the value it replaces is
\* dropped.
StoreWatcher(t) ==
    /\ setup_threads[t].pc = "store"
    /\ watcher' = t
    /\ watching' = IF watcher # 0 THEN Drop(watcher, watching) ELSE watching
    /\ setup_threads' = At(t, "done")
    /\ UNCHANGED watch_calls
    /\ UNCHANGED <<iterVars, squashVars>>
    /\ UNCHANGED notLateVars

\* WatcherState::unwatch (watcher.rs:150-159) in the state it finds when it
\* gets the lock: what it leaves in the slot, what is still watched, and
\* whether it returns Ok.
Unwatch(result) ==
    IF watcher # 0 /\ result = "Err"
    THEN [watcher |-> watcher, watching |-> Stop(watcher, "Err"), ok |-> FALSE]
    ELSE [watcher |-> 0,
          watching |-> IF watcher # 0 THEN Drop(watcher, Stop(watcher, "Ok")) ELSE watching,
          ok |-> TRUE]

\* stop_watching (commands/mod.rs:2676-2682) calls WatcherState::unwatch,
\* which runs to its end under the lock.
StopWatching ==
    /\ Len(watch_calls) < MaxCalls
    /\ LockFree
    /\ \E result \in Results :
          LET after == Unwatch(result)
          IN /\ watcher' = after.watcher
             /\ watching' = after.watching
             /\ watch_calls' = Append(watch_calls,
                    [op |-> "stop_watching", repo_path |-> "", ok |-> after.ok])
    /\ UNCHANGED setup_threads
    /\ UNCHANGED <<iterVars, squashVars>>
    /\ UNCHANGED notLateVars

WatchNext ==
    \/ StartWatching
    \/ StopWatching
    \/ \E t \in SetupThreads :
          \/ AcquireLock(t)
          \/ StopExisting(t)
          \/ NewWatcher(t)
          \/ StartWatcher(t)
          \/ StoreWatcher(t)

SpecWatch == WatchInit /\ [][WatchNext]_vars

\* ========================================================================
\* squash_commits (repository.rs:654-738)
\* ========================================================================

\* What the call finds: the number of selected commits, whether the newest
\* of them is HEAD, whether get_status reports staged or unstaged changes,
\* and what the lookup of the oldest selected commit gives.
OldestLookups == {"malformed", "unknown", "root", "has_parent"}

SquashInputs ==
    [selected : 0..MaxCommits, newest_is_head : BOOLEAN, staged : BOOLEAN,
     unstaged : BOOLEAN, oldest : OldestLookups]

\* The repository as far as the call can change it: where HEAD points, what
\* the index and the working tree hold, and the parent of the commit made by
\* the call, if any.
RepoBefore(input) ==
    [head |-> "previous_head",
     index |-> IF input.staged THEN "staged_changes" ELSE "previous_tree",
     worktree |-> IF input.unstaged THEN "unstaged_changes" ELSE "previous_tree",
     new_parent |-> "none"]

\* The ends of a run of the external tool: it could not be run, it exited
\* with a failure, it succeeded.
ToolResults == {"spawn_error", "failure", "success"}

\* git reset --soft <parent_id>: HEAD moves, index and files stay.
GitResetSoft(r, result) ==
    IF result = "success" THEN [r EXCEPT !.head = "parent"] ELSE r

\* git commit -m <message>: a commit of the index on top of HEAD.
GitCommit(r, result) ==
    IF result = "success"
    THEN [r EXCEPT !.head = "new_commit", !.new_parent = r.head]
    ELSE r

\* git reset --hard <previous_head_id>.
GitResetHard(r, result) ==
    IF result = "success"
    THEN [r EXCEPT !.head = "previous_head", !.index = "previous_tree",
                   !.worktree = "previous_tree"]
    ELSE r

\* The first check that fails (repository.rs:655-694), or "none".
FailedPrecondition(input) ==
    IF input.selected < 2 THEN "At least 2 commits are required for squash"
    ELSE IF ~input.newest_is_head THEN "The newest commit in the selection must be HEAD"
    ELSE IF input.staged \/ input.unstaged THEN "Cannot squash with uncommitted changes"
    ELSE IF input.oldest \in {"malformed", "unknown"} THEN "git2 error"
    ELSE IF input.oldest = "root" THEN "Cannot squash commits including the root commit"
    ELSE "none"

SquashAt(pc) == [squash_call EXCEPT !.pc = pc]
SquashReturn(result) == [squash_call EXCEPT !.pc = "done", !.result = result]

SquashInit ==
    /\ \E input \in SquashInputs :
          squash_call = [input |-> input, before |-> RepoBefore(input),
                         repo |-> RepoBefore(input), pc |-> "check", result |-> NoResult]
    /\ IterIdle
    /\ WatchIdle
    /\ NotLateIdle

\* repository.rs:655-694: the checks made before anything is changed.
CheckPreconditions ==
    /\ squash_call.pc = "check"
    /\ squash_call' = IF FailedPrecondition(squash_call.input) = "none"
                      THEN SquashAt("reset")
                      ELSE SquashReturn(Err(FailedPrecondition(squash_call.input)))
    /\ UNCHANGED <<iterVars, watchVars>>
    /\ UNCHANGED notLateVars

\* repository.rs:696-707: the soft reset to the parent of the oldest commit.
SoftReset ==
    /\ squash_call.pc = "reset"
    /\ \E result \in ToolResults :
          squash_call' =
              [(IF result = "success" THEN SquashAt("commit")
                ELSE SquashReturn(Err("git reset --soft failed")))
               EXCEPT !.repo = GitResetSoft(squash_call.repo, result)]
    /\ UNCHANGED <<iterVars, watchVars>>
    /\ UNCHANGED notLateVars

\* repository.rs:709-714: git commit; an error of running it is returned at
\* once, a failure of the tool leads to the restoring reset.
Commit ==
    /\ squash_call.pc = "commit"
    /\ \E result \in ToolResults :
          squash_call' =
              [(IF result = "success" THEN SquashAt("reread")
                ELSE IF result = "failure" THEN SquashAt("restore")
                ELSE SquashReturn(Err("Failed to run git commit")))
               EXCEPT !.repo = GitCommit(squash_call.repo, result)]
    /\ UNCHANGED <<iterVars, watchVars>>
    /\ UNCHANGED notLateVars

\* repository.rs:716-725: the hard reset to the previous HEAD, whose result
\* is discarded, and the error return.
Restore ==
    /\ squash_call.pc = "restore"
    /\ \E result \in ToolResults :
          squash_call' = [SquashReturn(Err("git commit failed"))
                          EXCEPT !.repo = GitResetHard(squash_call.repo, result)]
    /\ UNCHANGED <<iterVars, watchVars>>
    /\ UNCHANGED notLateVars

\* repository.rs:727-737: the repository is opened again and HEAD is read
\* for the result; each of the three calls can return an error.
ReadNewHead ==
    /\ squash_call.pc = "reread"
    /\ \E read \in Results :
          squash_call' = IF read = "Ok" THEN SquashReturn(Ok(squash_call.repo.head))
                         ELSE SquashReturn(Err("git2 error"))
    /\ UNCHANGED <<iterVars, watchVars>>
    /\ UNCHANGED notLateVars

SquashNext == CheckPreconditions \/ SoftReset \/ Commit \/ Restore \/ ReadNewHead

SpecSquash == SquashInit /\ [][SquashNext]_vars

\* ------------------------------------------------------------------------
\* Properties of the merge and rebase operations
\* ------------------------------------------------------------------------

ContinueOps == {"continue_rebase", "continue_interactive_rebase", "continue_merge"}
ReaderOps == {"get_rebase_status", "get_interactive_rebase_state", "get_merge_status"}

\* The calls that may report success through the tool's outcome.
ContinueOrSkipOps == ContinueOps \cup {"skip_rebase"}

\* The calls that are no continue, skip or abort action.
NonActionOps == ReaderOps \cup {"parse_file_conflicts", "save_resolved_file",
                                "mark_file_resolved"}

\* The reader an operation derives the conflicting files with.
ReaderOf(op) ==
    CASE op = "continue_rebase" -> "get_rebase_status"
      [] op = "continue_interactive_rebase" -> "get_interactive_rebase_state"
      [] op = "continue_merge" -> "get_merge_status"

\* What the reader named op returns for the repository r.
Read(op, r) ==
    CASE op = "get_rebase_status" -> GetRebaseStatus(r)
      [] op = "get_interactive_rebase_state" -> GetInteractiveRebaseState(r)
      [] op = "get_merge_status" -> GetMergeStatus(r)

\* The conflicting files the operation op derives in the repository r.
DerivedConflicts(op, r) == Read(ReaderOf(op), r).conflicting_files

RanTool(steps) == \E i \in DOMAIN steps : steps[i] \in ToolSteps

\* A status query comes after a tool run.
RequeriedAfterTool(steps) ==
    \E i, j \in DOMAIN steps :
        i < j /\ steps[i] \in ToolSteps /\ steps[j] \in StatusQueries

\* C1: continue_rebase, continue_interactive_rebase and continue_merge derive
\* the conflicting files as their first step, and when the derived list is not
\* empty they return an error, run no external tool and leave the repository
\* (operation in progress, conflicting files, working tree) as it was.
C1_ContinueRefusesConflicts ==
    [][ last_call'.op \in ContinueOps =>
          /\ last_call'.steps # <<>>
          /\ last_call'.steps[1] = ReaderOf(last_call'.op)
          /\ DerivedConflicts(last_call'.op, repo) # <<>> =>
                /\ ~last_call'.result.ok
                /\ ~last_call'.tool.ran
                /\ ~RanTool(last_call'.steps)
                /\ repo' = repo ]_vars

\* A continue_merge was refused during a merge with conflicted files.
C1_Witness ==
    /\ last_call.op = "continue_merge"
    /\ last_call.had_conflicts
    /\ ~last_call.result.ok
    /\ last_call.steps = <<"get_merge_status">>
    /\ repo.state \in MergeStates
    /\ repo.conflicted # {}

\* C2 (as stated): skip_rebase derives the conflicting files before it acts
\* and, when any file is conflicted, returns a failure without running the
\* external tool.
C2_SkipRefusesConflicts ==
    [][ last_call'.op = "skip_rebase" =>
          /\ last_call'.steps # <<>>
          /\ last_call'.steps[1] \in StatusQueries
          /\ GetRebaseStatus(repo).conflicting_files # <<>> =>
                /\ ~last_call'.result.ok
                /\ ~last_call'.tool.ran ]_vars

\* C2 (amended): skip_rebase derives no conflicting-file list: its only step
\* is the run of git rebase --skip, also while files are conflicted; it
\* returns success exactly when the tool exits with success, and the conflict
\* failure exactly when the tool fails with output naming a conflict.
C2_SkipAlwaysRunsTool ==
    [][ last_call'.op = "skip_rebase" =>
          /\ last_call'.steps = <<"git rebase --skip">>
          /\ last_call'.tool.ran
          /\ last_call'.result.ok <=> last_call'.tool.success
          /\ (last_call'.result = Err("Rebase has conflicts that need to be resolved"))
               <=> (~last_call'.tool.success /\ last_call'.tool.has_conflict) ]_vars

\* skip_rebase reported success for a call issued while files were conflicted.
C2_Witness ==
    /\ last_call.op = "skip_rebase"
    /\ last_call.had_conflicts
    /\ last_call.tool.ran
    /\ last_call.result = Ok("Skipped commit successfully")

\* C3 (as stated): when a continue or skip operation returns success, the
\* conflicting files were queried again after the external tool exited, and
\* no file is conflicted.
C3_SuccessAfterRequery ==
    (last_call.op \in ContinueOps \cup {"skip_rebase"} /\ last_call.result.ok) =>
        /\ RequeriedAfterTool(last_call.steps)
        /\ repo.conflicted = {}

\* C3 (amended): a continue or skip operation makes no query after the tool
\* has run.  When a continue operation returns success, its reader found no
\* conflicting file before the tool ran; success is reported from the tool's
\* exit status, and by continue_interactive_rebase also from a failed run
\* whose output tells of a stop and of no conflict.  skip_rebase queries
\* nothing and reports success from the exit status.
C3_SuccessFromToolRun ==
    [][ last_call'.op \in ContinueOrSkipOps =>
          /\ ~RequeriedAfterTool(last_call'.steps)
          /\ last_call'.result.ok =>
                /\ last_call'.tool.ran
                /\ last_call'.op \in ContinueOps =>
                      /\ Len(last_call'.steps) = 2
                      /\ last_call'.steps[1] = ReaderOf(last_call'.op)
                      /\ last_call'.steps[2] \in ToolSteps
                      /\ DerivedConflicts(last_call'.op, repo) = <<>>
                /\ last_call'.op = "skip_rebase" =>
                      last_call'.steps = <<"git rebase --skip">>
                /\ last_call'.op # "continue_interactive_rebase" =>
                      last_call'.tool.success
                /\ last_call'.op = "continue_interactive_rebase" =>
                      \/ last_call'.tool.success
                      \/ last_call'.tool.has_stopped /\ ~last_call'.tool.has_conflict ]_vars

\* continue_interactive_rebase reported success for a run of the tool that
\* failed and told of a stop.
C3_Witness ==
    /\ last_call.op = "continue_interactive_rebase"
    /\ last_call.result.ok
    /\ last_call.tool.ran
    /\ ~last_call.tool.success
    /\ last_call.tool.has_stopped
    /\ last_call.steps = <<"get_interactive_rebase_state", "git rebase --continue">>

\* C4: while a merge or rebase is in progress, a call of a state reader, of
\* parse_file_conflicts, of save_resolved_file or of mark_file_resolved does
\* not end it: every state reader reports it as in progress after the call,
\* and the repository state and the control files are as before.
C4_OnlyActionsEndOperation ==
    [][ last_call'.op \in NonActionOps =>
          /\ GetRebaseStatus(repo).in_rebase => GetRebaseStatus(repo').in_rebase
          /\ GetInteractiveRebaseState(repo).in_rebase =>
                GetInteractiveRebaseState(repo').in_rebase
          /\ GetMergeStatus(repo).in_merge => GetMergeStatus(repo').in_merge
          /\ repo'.state = repo.state
          /\ repo'.control = repo.control ]_vars

\* mark_file_resolved took the last conflicted file of a merge, and the merge
\* is still in progress.
C4_Witness ==
    /\ last_call.op = "mark_file_resolved"
    /\ last_call.had_conflicts
    /\ repo.conflicted = {}
    /\ GetMergeStatus(repo).in_merge

C20_AbortEndsOperation ==
    /\ (last_call.op = "abort_merge" /\ last_call.result.ok) =>
          /\ ~GetMergeStatus(repo).in_merge
          /\ GetMergeStatus(repo).conflicting_files = <<>>
    /\ (last_call.op = "abort_rebase" /\ last_call.result.ok) =>
          /\ ~GetRebaseStatus(repo).in_rebase
          /\ GetRebaseStatus(repo).conflicting_files = <<>>
          /\ ~GetInteractiveRebaseState(repo).in_rebase

\* abort_merge returned success for a call issued while files were
\* conflicted, and no merge is in progress any more.
C20_Witness ==
    /\ last_call.op = "abort_merge"
    /\ last_call.had_conflicts
    /\ last_call.tool.ran /\ last_call.tool.success
    /\ last_call.result = Ok("Merge aborted successfully")
    /\ ~GetMergeStatus(repo).in_merge

\* ------------------------------------------------------------------------
\* Properties of the reading of the tool's output
\* ------------------------------------------------------------------------

ConflictMarkers == {"CONFLICT", "could not apply"}
StopMessages == {"Stopped at", "You can amend"}

ConflictErrors == {Err("Rebase has conflicts that need to be resolved"),
                   Err("Rebase has more conflicts that need to be resolved"),
                   Err("Merge has conflicts that need to be resolved")}

ToolFailures == {Err("git rebase failed"), Err("git rebase --continue failed"),
                 Err("git rebase --skip failed"), Err("git rebase -i failed"),
                 Err("git merge failed")}

Paused == {Ok("Rebase started, stopped for editing"),
           Ok("Rebase continued, stopped for editing")}

\* C15: start_interactive_rebase and continue_interactive_rebase return
\* success for a successful exit; for a failed exit they return the conflict
\* error when the combined output holds a conflict marker, with or without a
\* stop message; the paused success when it holds a stop message and no
\* conflict marker; and otherwise the tool failure with the combined output.
C15_InteractiveOutcome ==
    (classified # NoResult
       /\ classified.op \in {"start_interactive_rebase", "continue_interactive_rebase"}) =>
        LET marker == (output.stdout \cup output.stderr) \cap ConflictMarkers # {}
            stop == (output.stdout \cup output.stderr) \cap StopMessages # {}
        IN /\ output.success => classified.result = Ok("stdout")
           /\ (~output.success /\ marker) => classified.result \in ConflictErrors
           /\ (~output.success /\ ~marker /\ stop) => classified.result \in Paused
           /\ (~output.success /\ ~marker /\ ~stop) =>
                 /\ classified.result \in ToolFailures
                 /\ classified.failure_text = output.stdout \cup output.stderr

\* start_interactive_rebase returned the conflict error for a failed run
\* whose output holds a conflict marker on one stream and a stop message on
\* the other.
C15_Witness ==
    /\ classified # NoResult
    /\ classified.op = "start_interactive_rebase"
    /\ ~output.success
    /\ output.stdout = {"CONFLICT"}
    /\ output.stderr = {"Stopped at"}
    /\ classified.result = Err("Rebase has conflicts that need to be resolved")

\* C16 (as stated): for every operation whose run of the tool can end in a
\* conflict, a failed exit gives the conflict error whenever stdout or stderr
\* holds "CONFLICT" or "could not apply", and every other failed exit gives a
\* tool failure whose message carries the combined stdout and stderr.
C16_ConflictFromEitherStream ==
    (classified # NoResult /\ classified.op \in ConflictOps /\ ~output.success) =>
        IF (output.stdout \cup output.stderr) \cap ConflictMarkers # {}
        THEN classified.result \in ConflictErrors
        ELSE /\ classified.result \in ToolFailures
             /\ classified.failure_text = output.stdout \cup output.stderr

\* ------------------------------------------------------------------------
\* Properties of the todo rendering
\* ------------------------------------------------------------------------

Rendered == todo_content # NoResult /\ Len(plan) > 0

\* The lines of a text given as pieces, as str::lines() and the tool split
\* it: each "\n" ends a line.
RECURSIVE LinesOf(_, _)
LinesOf(text, line) ==
    IF Len(text) = 0 THEN (IF Len(line) = 0 THEN <<>> ELSE <<line>>)
    ELSE IF text[1] = "\n" THEN <<line>> \o LinesOf(Tail(text), <<>>)
    ELSE LinesOf(Tail(text), Append(line, text[1]))

\* The first 7 characters of an id, or the whole id when it has at most 7.
First7(id) == [k \in 1..(IF Len(id) > 7 THEN 7 ELSE Len(id)) |-> id[k]]

\* The plan with every new_message taken away.
WithoutMessages(p) == [k \in 1..Len(p) |-> [p[k] EXCEPT !.new_message = "None"]]

C14_ArtifactsRemovedOnEveryReturn ==
    \A t \in Invocations :
        (inv[t].pc = "done" /\ inv[t].wrote) =>
            \A path \in TempPaths : ~(files[path].exists /\ files[path].writer = t)

\* C17: start_interactive_rebase with an empty plan takes one step: it
\* returns the error, having written no temporary file and not having run
\* the tool, and the temporary directory is as it was.
C17_EmptyPlanRefused ==
    [][ \A t \in Invocations :
          (inv[t].kind = "start" /\ inv[t].payload = <<>> /\ inv'[t] # inv[t]) =>
              /\ inv'[t].pc = "done"
              /\ inv'[t].result = Err("Rebase plan cannot be empty")
              /\ ~inv'[t].wrote
              /\ ~inv'[t].spawned
              /\ inv'[t].tool_todo = <<"not read">>
              /\ files' = files ]_vars

\* An empty plan was refused while another invocation's todo file and
\* script were in the temporary directory, and they still are.
C17_Witness ==
    /\ inv[1].kind = "start" /\ inv[1].payload = <<>>
    /\ inv[1].pc = "done"
    /\ inv[1].result = Err("Rebase plan cannot be empty")
    /\ inv[2].pc = "tool"
    /\ files[DataPath("start")].exists /\ files[DataPath("start")].writer = 2
    /\ files[ScriptPath("start")].exists

\* C18 (as stated): the tool of each invocation, when it calls its editor,
\* reads the content written by that same invocation; it never reads the
\* other invocation's content and never finds the files gone.
C18_PrivateArtifacts ==
    \A t \in Invocations :
        inv[t].tool_todo # <<"not read">> => inv[t].tool_todo = ContentOf(t)

\* ------------------------------------------------------------------------
\* Properties of build_commit_graph
\* ------------------------------------------------------------------------

GraphBuilt == graph_result # NoResult

Listed == { commit_ids[k] : k \in 1..Len(commit_ids) }

\* The 0-based row of a listed commit.
RowOf(c) == (CHOOSE k \in 1..Len(commit_ids) : commit_ids[k] = c) - 1

\* The elements of seq that lie in S, in order.
RECURSIVE Restrict(_, _)
Restrict(seq, S) ==
    IF Len(seq) = 0 THEN <<>>
    ELSE (IF seq[1] \in S THEN <<seq[1]>> ELSE <<>>) \o Restrict(Tail(seq), S)

\* C6: every connection of the returned graph has to_row equal to the row of
\* the connected parent in the input list; the connections of a node are its
\* listed parents in parent order, and a parent that is not in the input
\* list produces no connection.
C6_ConnectionLocality ==
    GraphBuilt =>
        \A k \in 1..Len(graph_result.nodes) :
            LET node == graph_result.nodes[k]
                listed_parents == Restrict(parent_ids_of[node.commit_id], Listed)
            IN /\ node.commit_id = commit_ids[k]
               /\ Len(node.connections) = Len(listed_parents)
               /\ \A j \in 1..Len(node.connections) :
                     /\ node.connections[j].to_row = RowOf(listed_parents[j])
                     /\ node.connections[j].to_row < Len(commit_ids)

\* A built graph with a node that has one parent inside the input list and
\* one outside it, and so a single connection.
C6_Witness ==
    /\ GraphBuilt
    /\ \E k \in 1..Len(graph_result.nodes) :
          LET node == graph_result.nodes[k]
              ps == parent_ids_of[node.commit_id]
          IN /\ Len(ps) = 2
             /\ \E a, b \in 1..2 : ps[a] \in Listed /\ ps[b] \notin Listed
             /\ Len(node.connections) = 1

C12_MaxColumns ==
    GraphBuilt =>
        IF Len(commit_ids) = 0
        THEN graph_result.nodes = <<>> /\ graph_result.max_columns = 0
        ELSE /\ Len(graph_result.nodes) = Len(commit_ids)
             /\ \A k \in 1..Len(graph_result.nodes) :
                   graph_result.nodes[k].column + 1 <= graph_result.max_columns
             /\ \E k \in 1..Len(graph_result.nodes) :
                   graph_result.nodes[k].column + 1 = graph_result.max_columns

\* A built graph whose widest row is not the last one: a node sits in
\* column 1 and no column is reserved at the end.
C12_Witness ==
    /\ GraphBuilt
    /\ graph_result.max_columns = 2
    /\ active_columns = <<>>
    /\ \E k \in 1..Len(graph_result.nodes) : graph_result.nodes[k].column = 1

\* The 0-based indices of the columns that hold v.
ColumnsHolding(cols, v) == { k - 1 : k \in { j \in 1..Len(cols) : cols[j] = v } }

Lowest(S) == CHOOSE x \in S : \A y \in S : x <= y

\* C30: build_commit_graph places a commit in the column that reserves its
\* id if there is one, otherwise in the free column of lowest index,
\* otherwise in a new column appended at the right; the column is never one
\* reserved for a different commit, and its reservation is cleared before
\* the parents are processed; no other column changes.
C30_ColumnChoice ==
    placed # NoResult =>
        LET cols == placing.active_columns
            commit_id == placing.commit_id
            column == placed.column
            reserving == ColumnsHolding(cols, commit_id)
            free == ColumnsHolding(cols, None)
        IN /\ column = IF reserving # {} THEN Lowest(reserving)
                       ELSE IF free # {} THEN Lowest(free)
                       ELSE Len(cols)
           /\ column < Len(cols) => cols[column + 1] \in {None, commit_id}
           /\ column >= Len(cols) => Len(placed.columns) = Len(cols) + 1
           /\ column < Len(placed.columns)
           /\ placed.columns[column + 1] = None
           /\ \A k \in 1..Len(cols) : k # column + 1 => placed.columns[k] = cols[k]

\* A commit that no column reserves has been placed in column 0, the lower
\* of two free columns, with column 2 reserved for another commit.
C30_Witness ==
    /\ placed # NoResult
    /\ placing.active_columns = <<None, None, 2>>
    /\ placing.commit_id = 1
    /\ placed.column = 0
    /\ placed.columns = <<None, None, 2>>

\* Every listed parent comes after each of its listed children.
ChildrenFirst ==
    \A c \in Listed :
        \A j \in 1..Len(parent_ids_of[c]) :
            parent_ids_of[c][j] \in Listed => RowOf(parent_ids_of[c][j]) > RowOf(c)

\* C35: for an input list of distinct commits in which every listed parent
\* comes after each of its children, every connection's from_column is the
\* column of the node that owns it, and its to_column is the column that
\* waits for the parent until the parent is processed and the column of the
\* parent's node from then on.
C35_ConnectionsMeetNodes ==
    ChildrenFirst =>
        \A k \in 1..Len(nodes) :
            \A j \in 1..Len(nodes[k].connections) :
                LET conn == nodes[k].connections[j]
                IN /\ conn.from_column = nodes[k].column
                   /\ conn.to_row > k - 1
                   /\ IF conn.to_row < Len(nodes)
                      THEN nodes[conn.to_row + 1].column = conn.to_column
                      ELSE /\ conn.to_column < Len(active_columns)
                           /\ active_columns[conn.to_column + 1] = commit_ids[conn.to_row + 1]

\* A merge commit followed by its two parents, the first of which is a child
\* of the second: both connections to the second parent go to column 1, and
\* its node is in column 1.
C35_Witness ==
    /\ GraphBuilt
    /\ ChildrenFirst
    /\ Len(graph_result.nodes) = 3
    /\ Len(graph_result.nodes[1].connections) = 2
    /\ graph_result.nodes[1].connections[2].to_column = 1
    /\ graph_result.nodes[1].connections[2].to_row = 2
    /\ Len(graph_result.nodes[2].connections) = 1
    /\ graph_result.nodes[2].connections[1].to_column = 1
    /\ graph_result.nodes[3].column = 1

\* The connections of the returned graph.
ConnectionsBuilt ==
    UNION { { graph_result.nodes[k].connections[j] :
                j \in 1..Len(graph_result.nodes[k].connections) } :
            k \in 1..Len(graph_result.nodes) }

\* C36, as stated: for any input list every column index of the result is
\* below max_columns.
C36_AllColumnsBelowMax ==
    GraphBuilt =>
        /\ \A k \in 1..Len(graph_result.nodes) :
              graph_result.nodes[k].column < graph_result.max_columns
        /\ \A conn \in ConnectionsBuilt :
              /\ conn.from_column < graph_result.max_columns
              /\ conn.to_column < graph_result.max_columns

\* C36, amended: for any input list of distinct commits node.column and
\* from_column are below max_columns; to_column is below max_columns when
\* every listed parent comes after each of its children.
C36_ColumnsBelowMax ==
    GraphBuilt =>
        /\ \A k \in 1..Len(graph_result.nodes) :
              graph_result.nodes[k].column < graph_result.max_columns
        /\ \A conn \in ConnectionsBuilt :
              /\ conn.from_column < graph_result.max_columns
              /\ ChildrenFirst => conn.to_column < graph_result.max_columns

\* A merge commit followed by its second parent only: the connection goes
\* to column 1, where the parent's node is, and max_columns is 2.
C36_Witness ==
    /\ GraphBuilt
    /\ ChildrenFirst
    /\ Len(commit_ids) = 2
    /\ Len(parent_ids_of[commit_ids[1]]) = 2
    /\ graph_result.max_columns = 2
    /\ graph_result.nodes[1].column = 0
    /\ graph_result.nodes[2].column = 1
    /\ Len(graph_result.nodes[1].connections) = 1
    /\ graph_result.nodes[1].connections[1].to_column = 1

\* ---- one iteration, step by step (SpecIter) ----

\* active_columns before and after the turn of the parent loop for the k-th
\* parent (k from 1): history holds the columns at the start, after the
\* placement, and after each parent.
BeforeParent(k) == iteration.history[k + 1]
AfterParent(k) == iteration.history[k + 2]

ParentsDone == IF iteration = NoResult THEN {} ELSE 1..iteration.i

InList(parent_id) == parent_id \in DOMAIN iteration.commit_to_row

\* The connection pushed for the k-th parent, a parent of the input list.
ConnectionTo(k) ==
    iteration.connections[
        Cardinality({ j \in 1..k : InList(iteration.parent_ids[j]) })]

\* C31: when a column already reserves a parent of the commit being
\* processed, the connection to that parent has to_column equal to that
\* column, the columns are left as they were (no additional column is
\* reserved), and the commit's own column is not reserved for that parent.
C31_BranchConvergence ==
    \A k \in ParentsDone :
        LET parent_id == iteration.parent_ids[k]
            reserving == ColumnsHolding(BeforeParent(k), parent_id)
        IN reserving # {} =>
              /\ AfterParent(k) = BeforeParent(k)
              /\ AfterParent(k)[iteration.column + 1] # parent_id
              /\ iteration.column \notin reserving
              /\ InList(parent_id) =>
                    /\ ConnectionTo(k).to_column \in reserving
                    /\ ConnectionTo(k).from_column = iteration.column
                    /\ ConnectionTo(k).to_row = iteration.commit_to_row[parent_id]

\* Commit 2 was placed in a new column 1 while column 0 waits for commit 3,
\* its first parent: the connection goes to column 0 and column 1 stays
\* free.
C31_Witness ==
    /\ iteration # NoResult
    /\ iteration.history = << <<3>>, <<3, None>>, <<3, None>> >>
    /\ iteration.commit_id = 2
    /\ iteration.parent_ids = <<3>>
    /\ iteration.i = 1
    /\ iteration.column = 1
    /\ Len(iteration.connections) = 1
    /\ iteration.connections[1].to_column = 0
    /\ iteration.connections[1].from_column = 1

\* C32: a parent of the commit being processed that no column reserves gets
\* exactly one reservation: the commit's own column if it is the first
\* parent, otherwise the free column of lowest index at that moment, or a
\* column appended at the right when none is free; no other column changes
\* and the connection, if any, goes to the reserved column.
C32_NewReservation ==
    \A k \in ParentsDone :
        LET parent_id == iteration.parent_ids[k]
            before == BeforeParent(k)
            after == AfterParent(k)
            free == ColumnsHolding(before, None)
            target == IF k = 1 THEN iteration.column
                      ELSE IF free # {} THEN Lowest(free)
                      ELSE Len(before)
        IN ColumnsHolding(before, parent_id) = {} =>
              /\ ColumnsHolding(after, parent_id) = {target}
              /\ Len(after) = IF target < Len(before) THEN Len(before) ELSE Len(before) + 1
              /\ target < Len(before) => before[target + 1] = None
              /\ \A j \in 1..Len(before) : j # target + 1 => after[j] = before[j]
              /\ InList(parent_id) => ConnectionTo(k).to_column = target

\* Commit 1 took column 0, the lower of two free columns; its first parent 3
\* is awaited in column 2, and its second parent 2, awaited nowhere, got the
\* free column of lowest index, column 0, with column 1 left free.
C32_Witness ==
    /\ iteration # NoResult
    /\ iteration.commit_id = 1
    /\ iteration.parent_ids = <<3, 2>>
    /\ iteration.i = 2
    /\ iteration.history = << <<None, None, 3>>, <<None, None, 3>>,
                              <<None, None, 3>>, <<2, None, 3>> >>
    /\ InList(2)
    /\ iteration.connections[Len(iteration.connections)].to_column = 0
    /\ iteration.connections[Len(iteration.connections)].is_merge

IterationDone == iteration # NoResult /\ iteration.pc = "done"

\* C33: after a commit has been processed the active-column list is empty
\* or its last entry is a reservation, and compaction removes free columns
\* only: every column that holds a reservation is kept at its index.
C33_Compaction ==
    IterationDone =>
        LET before == iteration.history[Len(iteration.history) - 1]
            after == Current(iteration)
        IN /\ after = <<>> \/ after[Len(after)] # None
           /\ Len(after) <= Len(before)
           /\ \A j \in 1..Len(after) : after[j] = before[j]
           /\ \A j \in (Len(after) + 1)..Len(before) : before[j] = None

\* Commit 2, without parents, was taken from column 2: the freed column at
\* the right end is gone, the free column 0 and the reservation of column 1
\* are where they were.
C33_Witness ==
    /\ IterationDone
    /\ iteration.commit_id = 2
    /\ iteration.parent_ids = <<>>
    /\ iteration.history = << <<None, 1, 2>>, <<None, 1, None>>, <<None, 1>> >>

\* No commit is reserved by two columns of cols.
ReservedOnce(cols) ==
    \A a, b \in 1..Len(cols) : (a # b /\ cols[a] # None) => cols[a] # cols[b]

\* C34: at every point of the pass each commit id is reserved by at most one
\* column of the active-column list: between two iterations, and inside an
\* iteration after the placement, after each parent and after compaction.
C34_ReservedOnce ==
    /\ ReservedOnce(active_columns)
    /\ iteration # NoResult =>
          \A k \in 1..Len(iteration.history) : ReservedOnce(iteration.history[k])

\* Commit 1 got a new column next to the column waiting for commit 3; its
\* first parent 2 took that new column and its second parent 3, already
\* awaited, kept its single reservation in column 0.
C34_Witness ==
    /\ iteration # NoResult
    /\ iteration.commit_id = 1
    /\ iteration.parent_ids = <<2, 3>>
    /\ iteration.i = 2
    /\ iteration.history = << <<3>>, <<3, None>>, <<3, 2>>, <<3, 2>> >>

\* A linear history given newest-first: each commit's only parent is the
\* next list entry; the last has no parent, or one parent outside the list.
LinearHistory ==
    /\ Len(commit_ids) >= 1
    /\ \A k \in 1..(Len(commit_ids) - 1) :
          parent_ids_of[commit_ids[k]] = <<commit_ids[k + 1]>>
    /\ LET last == parent_ids_of[commit_ids[Len(commit_ids)]]
       IN last = <<>> \/ (Len(last) = 1 /\ last[1] \notin Listed)

\* C10: for a linear history of n >= 1 commits given newest-first the graph
\* has n nodes, every node in column 0, and max_columns = 1.
C10_LinearHistory ==
    (GraphBuilt /\ LinearHistory) =>
        /\ Len(graph_result.nodes) = Len(commit_ids)
        /\ \A k \in 1..Len(graph_result.nodes) : graph_result.nodes[k].column = 0
        /\ graph_result.max_columns = 1

\* The graph built for a linear history of three commits.
C10_Witness ==
    /\ GraphBuilt /\ LinearHistory
    /\ Len(commit_ids) = 3
    /\ Len(graph_result.nodes) = 3

\* ------------------------------------------------------------------------
\* Properties of parse_file_conflicts
\* ------------------------------------------------------------------------

IsMarkerLine(line) ==
    \/ StartsWith(line, OursMarker)
    \/ StartsWith(line, SeparatorMarker)
    \/ StartsWith(line, TheirsMarker)

\* The elements of seq at the indices of S, in increasing index order.
RECURSIVE SubseqAt(_, _)
SubseqAt(seq, S) ==
    IF S = {} THEN <<>>
    ELSE LET m == CHOOSE x \in S : \A y \in S : x <= y
         IN <<seq[m]>> \o SubseqAt(seq, S \ {m})

\* The indices (1-based) of the marker lines of the file, in file order.
MarkerIdx == { k \in 1..Len(lines) : IsMarkerLine(lines[k]) }
MarkerSeq == SortedSeq(MarkerIdx)

\* Well-formed: the marker lines read opening, separator, closing, opening,
\* separator, closing, ... (every block complete, none nested).
WellFormed ==
    /\ Len(MarkerSeq) % 3 = 0
    /\ \A k \in 1..Len(MarkerSeq) :
          LET line == lines[MarkerSeq[k]] IN
          CASE k % 3 = 1 -> StartsWith(line, OursMarker)
            [] k % 3 = 2 -> StartsWith(line, SeparatorMarker)
            [] OTHER -> StartsWith(line, TheirsMarker)

NumBlocks == Len(MarkerSeq) \div 3
BlockOpen(b) == MarkerSeq[3 * b - 2]
BlockSep(b) == MarkerSeq[3 * b - 1]
BlockClose(b) == MarkerSeq[3 * b]

InOursPart(k) == \E b \in 1..NumBlocks : BlockOpen(b) < k /\ k < BlockSep(b)
InTheirsPart(k) == \E b \in 1..NumBlocks : BlockSep(b) < k /\ k < BlockClose(b)
InBlock(k) == \E b \in 1..NumBlocks : BlockOpen(b) <= k /\ k <= BlockClose(b)

\* The file with every block replaced by its ours (theirs) lines.
ExpectedOurs == SubseqAt(lines, { k \in 1..Len(lines) : ~InBlock(k) \/ InOursPart(k) })
ExpectedTheirs == SubseqAt(lines, { k \in 1..Len(lines) : ~InBlock(k) \/ InTheirsPart(k) })

Parsed == parse_result # NoResult

\* C7: for a file with well-formed conflict markers, ours_full is the file's
\* lines with every block replaced by its ours lines and theirs_full the
\* same with the theirs lines (joined by newlines); no marker line is part
\* of either.
C7_FullReconstruction ==
    (Parsed /\ WellFormed) =>
        /\ parse_result.ours_full = Join(ExpectedOurs)
        /\ parse_result.theirs_full = Join(ExpectedTheirs)
        /\ \A k \in 1..Len(parse_result.ours_full) :
              ~IsMarkerLine(parse_result.ours_full[k])
        /\ \A k \in 1..Len(parse_result.theirs_full) :
              ~IsMarkerLine(parse_result.theirs_full[k])

\* A parsed well-formed file with a block whose two sides differ and a line
\* outside the block.
C7_Witness ==
    /\ Parsed /\ WellFormed /\ NumBlocks >= 1
    /\ \E k \in 1..Len(lines) : ~InBlock(k)
    /\ \E k \in 1..Len(lines) : InOursPart(k)
    /\ \E k \in 1..Len(lines) : InTheirsPart(k)
    /\ parse_result.ours_full # parse_result.theirs_full

\* C8: for a file with well-formed conflict markers there is exactly one
\* region per block, in file order, from the 1-based line of the opening
\* marker to that of the closing marker; the ranges are disjoint, strictly
\* increasing, and cover exactly the lines from a marker to its closing
\* marker.
C8_RegionBounds ==
    (Parsed /\ WellFormed) =>
        LET cs == parse_result.conflicts IN
        /\ Len(cs) = NumBlocks
        /\ \A b \in 1..Len(cs) :
              /\ cs[b].start_line = BlockOpen(b)
              /\ cs[b].end_line = BlockClose(b)
              /\ cs[b].start_line < cs[b].end_line
        /\ \A b \in 1..(Len(cs) - 1) : cs[b].end_line < cs[b + 1].start_line
        /\ UNION { cs[b].start_line .. cs[b].end_line : b \in 1..Len(cs) }
             = { k \in 1..Len(lines) :
                   \E o \in 1..k :
                      /\ StartsWith(lines[o], OursMarker)
                      /\ \A c \in o..(k - 1) : ~StartsWith(lines[c], TheirsMarker) }

\* A parsed well-formed file with two blocks.
C8_Witness ==
    /\ Parsed /\ WellFormed /\ NumBlocks = 2
    /\ Len(parse_result.conflicts) = 2

\* C9: for a file with exactly one conflict block there is exactly one
\* region: its ours text is the lines between the opening marker and the
\* separator joined by newlines, its theirs text the lines between the
\* separator and the closing marker, its bounds the 1-based lines of the
\* two outer markers; ours_full and theirs_full keep the lines around the
\* block unchanged.
C9_SingleBlock ==
    (Parsed /\ WellFormed /\ NumBlocks = 1) =>
        LET o == BlockOpen(1)
            s == BlockSep(1)
            c == BlockClose(1)
            before == SubSeq(lines, 1, o - 1)
            after == SubSeq(lines, c + 1, Len(lines))
            ours == SubSeq(lines, o + 1, s - 1)
            theirs == SubSeq(lines, s + 1, c - 1)
        IN /\ parse_result.conflicts =
                <<[start_line |-> o, end_line |-> c,
                   ours_content |-> Join(ours), theirs_content |-> Join(theirs)]>>
           /\ parse_result.ours_full = Join(before \o ours \o after)
           /\ parse_result.theirs_full = Join(before \o theirs \o after)

\* A parsed one-block file whose sides are "a" and "b", with a line before
\* the block.
C9_Witness ==
    /\ Parsed /\ WellFormed /\ NumBlocks = 1
    /\ BlockOpen(1) > 1
    /\ parse_result.conflicts[1].ours_content = <<"a">>
    /\ parse_result.conflicts[1].theirs_content = <<"b">>

\* The pieces of a joined text that are lines (not the "\n" between them).
LinesIn(text) == { text[k] : k \in 1..Len(text) } \ {"\n"}

\* C37: for any file, well-formed or not, no content line is lost: every
\* line that is not a marker line appears in ours_full or in theirs_full.
C37_NoContentLost ==
    Parsed =>
        \A k \in 1..Len(lines) :
            ~IsMarkerLine(lines[k]) =>
                lines[k] \in LinesIn(parse_result.ours_full)
                              \cup LinesIn(parse_result.theirs_full)

\* ------------------------------------------------------------------------
\* Properties of the file watcher
\* ------------------------------------------------------------------------

\* Every setup thread spawned so far has finished, and no call into a
\* RepoWatcher made by these threads or by stop_watching has failed.
SetupFinished ==
    /\ \A t \in SetupThreads : setup_threads[t].pc = "done" /\ ~setup_threads[t].failed
    /\ \A k \in 1..Len(watch_calls) : watch_calls[k].ok

\* C38: once all spawned setup threads have finished, the watcher state
\* reflects the most recent call: after a start_watching the stored watcher
\* watches that call's path and no other is active, after a stop_watching no
\* watcher is stored or active.
C38_LatestCallWins ==
    (watch_calls # <<>> /\ SetupFinished) =>
        LET last == watch_calls[Len(watch_calls)]
        IN IF last.op = "start_watching"
           THEN /\ watcher # 0
                /\ setup_threads[watcher].repo_path = last.repo_path
                /\ watching = {watcher}
           ELSE /\ watcher = 0
                /\ watching = {}

\* C39: at most one RepoWatcher is watching at any time, and whenever the
\* slot holds a watcher (and no thread is inside the locked section) that
\* watcher is watching.
C39_StoredWatcherIsActive ==
    /\ Cardinality(watching) <= 1
    /\ (LockFree /\ watcher # 0) => watcher \in watching

\* ------------------------------------------------------------------------
\* Properties of squash_commits
\* ------------------------------------------------------------------------

\* C40: squash_commits either returns success with HEAD at a new commit
\* whose parent is the first parent of the oldest selected commit, or
\* returns an error with HEAD, index and working tree as they were before
\* the call.
C40_AllOrNothing ==
    (squash_call # NoResult /\ squash_call.pc = "done") =>
        IF squash_call.result.ok
        THEN /\ squash_call.repo.head = "new_commit"
             /\ squash_call.repo.new_parent = "parent"
        ELSE /\ squash_call.repo.head = squash_call.before.head
             /\ squash_call.repo.index = squash_call.before.index
             /\ squash_call.repo.worktree = squash_call.before.worktree

\* ------------------------------------------------------------------------
\* Properties of the diff requests
\* ------------------------------------------------------------------------

\* A request has returned a UnifiedDiff.
Unified ==
    /\ diff_call # NoResult
    /\ diff_call.op \in {"get_commit_diff", "get_working_diff"}
    /\ diff_call.result.ok

\* get_working_diff(staged = false) has returned a UnifiedDiff.
UnstagedDiff == Unified /\ diff_call.op = "get_working_diff" /\ ~diff_call.staged

\* A text file: valid UTF-8 without a NUL byte.
IsText(bytes) == \A k \in DOMAIN bytes : bytes[k] \notin {"NUL", "BAD"}

\* The lines of a text file are what stands between its line endings, a
\* line ending being "\n" or "\r\n"; the last line need not be ended.
LineEnds(bytes) == SortedSeq({ k \in DOMAIN bytes : bytes[k] = "\n" })

NumLines(bytes) ==
    Len(LineEnds(bytes)) + (IF bytes # <<>> /\ bytes[Len(bytes)] # "\n" THEN 1 ELSE 0)

FileLine(bytes, i) ==
    LET ends == LineEnds(bytes)
        first == IF i = 1 THEN 1 ELSE ends[i - 1] + 1
        stop == IF i > Len(ends) THEN Len(bytes) + 1 ELSE ends[i]
        last == IF i <= Len(ends) /\ stop - 1 >= first /\ bytes[stop - 1] = "\r"
                THEN stop - 2 ELSE stop - 1
    IN SubSeq(bytes, first, last)

\* C21: for an untracked text file of N >= 1 lines, the patch returned by
\* get_working_diff(staged = false) holds the hunk header "@@ -0,0 +1,N @@"
\* followed by exactly N lines, the i-th being "+" followed by the i-th line
\* of the file.
C21_UntrackedPatchLines ==
    UnstagedDiff =>
        \A i \in DOMAIN diff :
            LET bytes == diff[i].workdir_file.bytes
                n == NumLines(bytes)
                patch == diff_call.result.patch
            IN (/\ diff[i].status = "Untracked"
                /\ diff[i].workdir_file.readable
                /\ IsText(bytes)
                /\ n >= 1)
               => \E k \in DOMAIN patch :
                     /\ patch[k] = Line("@@ -0,0 +1,{line_count} @@", diff[i].new_path, n, <<>>)
                     /\ k + n <= Len(patch)
                     /\ \A j \in 1..n :
                           patch[k + j] = Line("+", diff[i].new_path, 0, FileLine(bytes, j))
                     /\ k + n + 1 <= Len(patch) => patch[k + n + 1].kind # "+"

\* An untracked file of two lines, the second without a line ending, has
\* been given its patch.
C21_Witness ==
    /\ UnstagedDiff
    /\ Len(diff) = 1
    /\ diff[1].status = "Untracked"
    /\ diff[1].workdir_file = Readable(<<"a", "\n", "b">>)
    /\ Len(diff_call.result.patch) = 7
    /\ diff_call.result.patch[5].n = 2
    /\ diff_call.result.patch[7] = Line("+", 1, 0, <<"b">>)

\* The "+" lines the returned patch holds for the file at path.
PlusLines(path) ==
    { k \in DOMAIN diff_call.result.patch :
        /\ diff_call.result.patch[k].kind = "+"
        /\ diff_call.result.patch[k].path = path }

\* C22: for every untracked text file in the result of
\* get_working_diff(staged = false), additions is the number of "+" lines of
\* the file's synthesized patch and deletions is 0.
C22_StatsAgreeWithPatch ==
    UnstagedDiff =>
        \A i \in DOMAIN diff :
            (/\ diff[i].status = "Untracked"
             /\ diff[i].workdir_file.readable
             /\ IsText(diff[i].workdir_file.bytes))
            => /\ diff_call.result.files[i].additions = Cardinality(PlusLines(diff[i].new_path))
               /\ diff_call.result.files[i].deletions = 0

\* The lines a patch holds for the file at path.
FragmentIn(patch, path) ==
    [k \in 1..Cardinality({ j \in DOMAIN patch : patch[j].path = path }) |->
        patch[CHOOSE j \in DOMAIN patch :
                /\ patch[j].path = path
                /\ Cardinality({ m \in 1..j : patch[m].path = path }) = k]]

\* The lines the returned patch holds for the file at path.
FragmentOf(path) == FragmentIn(diff_call.result.patch, path)

HasHunkHeader(fragment) ==
    \E k \in DOMAIN fragment : fragment[k].kind = "@@ -0,0 +1,{line_count} @@"

\* C23: the patch synthesized for an untracked file holds a hunk header
\* exactly when the file is non-empty text; a file with a NUL byte or
\* invalid UTF-8 gets the file header and the line "Binary files /dev/null
\* and b/<path> differ"; an empty file gets only the file header.
C23_HunkOnlyForNonEmptyText ==
    UnstagedDiff =>
        \A i \in DOMAIN diff :
            LET bytes == diff[i].workdir_file.bytes
                path == diff[i].new_path
                fragment == FragmentOf(path)
            IN (diff[i].status = "Untracked" /\ diff[i].workdir_file.readable)
               => /\ HasHunkHeader(fragment) <=> (bytes # <<>> /\ IsText(bytes))
                  /\ SubSeq(fragment, 1, 4) = FileHeader(path)
                  /\ ~IsText(bytes) =>
                        fragment = FileHeader(path) \o
                            <<Line("Binary files /dev/null and b/{path} differ", path, 0, <<>>)>>
                  /\ bytes = <<>> => fragment = FileHeader(path)

\* An untracked file that holds an invalid byte and no NUL byte has been
\* given the binary stub.
C23_Witness ==
    /\ UnstagedDiff
    /\ Len(diff) = 1
    /\ diff[1].status = "Untracked"
    /\ diff[1].workdir_file = Readable(<<"a", "\n", "BAD">>)
    /\ Len(diff_call.result.patch) = 5
    /\ diff_call.result.patch[5].kind = "Binary files /dev/null and b/{path} differ"

\* The fragments of the files listed from the i-th on, one after the other.
RECURSIVE FragmentsFrom(_)
FragmentsFrom(i) ==
    IF i > Len(diff_call.result.files) THEN <<>>
    ELSE FragmentOf(diff_call.result.files[i].path) \o FragmentsFrom(i + 1)

IsFileHeaderLine(line) == line.kind = "diff --git a/{path} b/{path}"

\* C24: in every UnifiedDiff, patch is the concatenation of the per-file
\* fragments in the order of files: the i-th fragment belongs to files[i],
\* a file has at most one fragment, and no fragment belongs to a file that
\* is not listed.
C24_PatchInFileOrder ==
    Unified =>
        /\ Len(diff_call.result.files) = Len(diff)
        /\ diff_call.result.patch = FragmentsFrom(1)
        /\ \A i \in DOMAIN diff_call.result.files :
              LET fragment == FragmentOf(diff_call.result.files[i].path)
              IN fragment # <<>> =>
                    /\ IsFileHeaderLine(fragment[1])
                    /\ \A k \in 2..Len(fragment) : ~IsFileHeaderLine(fragment[k])

\* A diff of two files, the first changed and the second untracked, has
\* been returned with a fragment for each.
C24_Witness ==
    /\ Unified
    /\ Len(diff) = 2
    /\ diff[1].from_diff = "Hunks"
    /\ diff[2].status = "Untracked"
    /\ diff[2].workdir_file = Readable(<<"a", "\n", "b">>)
    /\ Len(diff_call.result.patch) = 9
    /\ diff_call.result.patch[1].path = 1
    /\ diff_call.result.patch[3].path = 2

\* The deltas a returned result covers: those at the requested path for
\* get_file_diff, all of them otherwise.
Covered ==
    { i \in DOMAIN diff :
        diff_call.op = "get_file_diff" => diff[i].new_path = diff_call.file_path }

\* C25: a diff request returns an error or a complete result: an invalid
\* commit identifier gives an error, and so does a tracked delta whose
\* patch cannot be produced; no result is returned that lacks the fragment
\* of such a delta.
C25_ErrorOrComplete ==
    diff_call # NoResult =>
        /\ diff_call.commit_id \in {"malformed", "unknown"} => ~diff_call.result.ok
        /\ diff_call.result.ok =>
              \A i \in Covered :
                  diff[i].status # "Untracked" => diff[i].from_diff \notin {"Err", "BufErr"}

\* The same diff with the file of delta i holding the bytes.
WithFile(i, bytes) == [diff EXCEPT ![i].workdir_file = Readable(bytes)]

\* C26: when an untracked file of the diff cannot be read, get_working_diff
\* still succeeds; the file is listed with additions = 0 and has an empty
\* fragment, and the entries and fragments of all other files are those of
\* the same diff with the file readable.
C26_UnreadableUntrackedFile ==
    (/\ diff_call # NoResult
     /\ diff_call.op = "get_working_diff"
     /\ ~diff_call.staged)
    => \A i \in DOMAIN diff :
          (diff[i].status = "Untracked" /\ ~diff[i].workdir_file.readable)
          => /\ diff_call.result.ok
             /\ Len(diff_call.result.files) = Len(diff)
             /\ diff_call.result.files[i].path = diff[i].new_path
             /\ diff_call.result.files[i].additions = 0
             /\ FragmentOf(diff[i].new_path) = <<>>
             /\ \A bytes \in {<<>>, <<"a", "NUL">>, <<"a", "\n">>, <<"b", "\r", "\n">>} :
                   LET other == DiffToUnified(WithFile(i, bytes))
                   IN \A j \in DOMAIN diff :
                         j # i =>
                           /\ other.files[j] = diff_call.result.files[j]
                           /\ FragmentIn(other.patch, diff[j].new_path)
                                 = FragmentOf(diff[j].new_path)

\* A diff of an untracked file that cannot be read and an untracked text
\* file has been returned, with the lines of the second file only.
C26_Witness ==
    /\ diff_call # NoResult
    /\ diff_call.op = "get_working_diff"
    /\ ~diff_call.staged
    /\ diff_call.result.ok
    /\ Len(diff) = 2
    /\ diff[1].status = "Untracked"
    /\ ~diff[1].workdir_file.readable
    /\ diff[2].status = "Untracked"
    /\ diff[2].workdir_file = Readable(<<"a", "\n", "b">>)
    /\ Len(diff_call.result.patch) = 7
    /\ diff_call.result.patch[1].path = 2

\* C27: in every ChangeRecord returned by a diff operation, oldPath is set
\* if and only if the status is Renamed or Copied, and similarity is set
\* under the same condition.
C27_OldPathIffRenamedOrCopied ==
    Unified =>
        \A i \in DOMAIN diff_call.result.files :
            LET file == diff_call.result.files[i]
            IN /\ file.old_path.some <=> file.status \in {"R", "C"}
               /\ file.similarity.some <=> file.status \in {"R", "C"}

\* A diff with a renamed file and a modified file has been returned; the
\* first names its old path, the second does not.
C27_Witness ==
    /\ Unified
    /\ Len(diff) = 2
    /\ diff[1].status = "Renamed"
    /\ diff[2].status = "Modified"
    /\ diff_call.result.files[1].old_path = Some(OldPathOf("Renamed", 1))
    /\ diff_call.result.files[1].similarity.some
    /\ ~diff_call.result.files[2].old_path.some

\* ------------------------------------------------------------------------
\* Properties of get_interactive_rebase_state
\* ------------------------------------------------------------------------

StateRead == state_read # NoResult

StopReasonsByMarkers(control) ==
    LET edit == control.done_last \in {"edit", "e"} \/ control.amend
        reword == control.done_last \in {"reword", "r"}
        squash == /\ control.done_last \in {"squash", "s", "fixup", "f"}
                  /\ control.message_squash \/ control.message_fixup
    IN IF edit \/ reword \/ squash
       THEN { reason \in {"Edit", "Reword", "SquashMessage"} :
                \/ reason = "Edit" /\ edit
                \/ reason = "Reword" /\ reword
                \/ reason = "SquashMessage" /\ squash }
       ELSE {"Other"}

\* C29: for an interactive rebase with no conflicted file, the stop reason
\* is Edit when the last line of the done log names an edit step or the
\* amend marker is present, Reword when it names a reword step,
\* SquashMessage when it names a squash or fixup step and a squash or fixup
\* message marker exists, and Other in every remaining case.
C29_StopReasonFromMarkers ==
    (/\ StateRead
     /\ state_read.in_rebase
     /\ state_read.is_interactive
     /\ disk.conflicted = {})
    => state_read.stop_reason \in StopReasonsByMarkers(disk.control)

====
